---------------------------- MODULE Spec2Model ----------------------------
(***************************************************************************)
(* Model of BioScout's retrieval-augmented question answering              *)
(* (server/ragSystem.ts, the POST /api/rag/ask route of server/routes.ts   *)
(* and the storage calls of server/storage.ts it uses).                    *)
(*                                                                         *)
(* Representation.                                                         *)
(*  - A JavaScript string is a sequence of UTF-16 code units (integers).   *)
(*    All inputs of the model are ASCII.                                   *)
(*  - An embedding component is count/magnitude, an irrational number in   *)
(*    general.  An embedding is kept as the integer counts of the buckets  *)
(*    written, together with the squared magnitude, and a similarity as    *)
(*    the exact value num / sqrt(den2); comparisons are made by cross      *)
(*    multiplication.                                                      *)
(*    Floating-point rounding of the dot product is not modelled.          *)
(***************************************************************************)
EXTENDS Integers, Sequences, FiniteSets, TLC

(***************************************************************************)
(* Values that are not strings (JSON body fields, optional record fields). *)
(***************************************************************************)
Undefined == [jstype |-> "undefined"]
JSNumber(n) == [jstype |-> "number", value |-> n]
JSString(s) == [jstype |-> "string", chars |-> s]

IsString(v) == v.jstype = "string"

\* variant: only a missing question is rejected
Falsy_OnlyMissing(v) == v.jstype = "undefined"

\* !v, for v undefined, a string or a number
Falsy(v) ==
    \/ v.jstype = "undefined"
    \/ v.jstype = "string" /\ Len(v.chars) = 0
    \/ v.jstype = "number" /\ v.value = 0

(***************************************************************************)
(* String primitives.                                                      *)
(***************************************************************************)
\* String.prototype.toLowerCase on one code unit (ASCII range)
LowerChar(c) == IF c >= 65 /\ c <= 90 THEN c + 32 ELSE c

toLowerCase(s) == [i \in 1 .. Len(s) |-> LowerChar(s[i])]

\* the regular expression class \s
IsSpace(c) ==
    c \in {9, 10, 11, 12, 13, 32, 160, 5760, 8232, 8233, 8239, 8287, 12288, 65279}
    \/ (c >= 8192 /\ c <= 8202)

\* the regular expression class \w
IsWordChar(c) ==
    \/ c >= 48 /\ c <= 57
    \/ c >= 65 /\ c <= 90
    \/ c >= 97 /\ c <= 122
    \/ c = 95

\* s.replace(/[^\w\s]/g, '')
StripNonWord(s) == SelectSeq(s, LAMBDA c : IsWordChar(c) \/ IsSpace(c))

\* A const binding: F(x) with x evaluated once.  (F(x) itself has the same
\* value; TLC evaluates an operator's argument again at each use when it
\* evaluates ENABLED.)
Bind(x, F(_)) == CHOOSE v \in {F(y) : y \in {x}} : TRUE

\* s.split(/\s+/): the pieces between maximal runs of white space; a leading
\* or trailing run leaves an empty first or last piece, "" gives [""].
SplitWhitespace(s) ==
    Bind(s, LAMBDA str :
        LET n == Len(str)
            starts == {i \in 1 .. n : IsSpace(str[i]) /\ (i = 1 \/ ~IsSpace(str[i - 1]))}
            ends == {i \in 1 .. n : IsSpace(str[i]) /\ (i = n \/ ~IsSpace(str[i + 1]))}
            runs == Cardinality(starts)
            Nth(S, k) == CHOOSE x \in S : Cardinality({y \in S : y < x}) = k - 1
        IN  [k \in 1 .. runs + 1 |->
                SubSeq(str, IF k = 1 THEN 1 ELSE Nth(ends, k - 1) + 1,
                            IF k = runs + 1 THEN n ELSE Nth(starts, k) - 1)])

\* Array.prototype.join
RECURSIVE Join(_, _)
Join(parts, sep) ==
    IF Len(parts) = 0 THEN <<>>
    ELSE IF Len(parts) = 1 THEN parts[1]
    ELSE parts[1] \o sep \o Join(Tail(parts), sep)

\* String.prototype.includes
Includes(s, t) ==
    \/ Len(t) = 0
    \/ \E i \in 0 .. (Len(s) - Len(t)) :
          s[i + 1] = t[1] /\ SubSeq(s, i + 1, i + Len(t)) = t

\* Number-to-string conversion of an integer
RECURSIVE DigitsOf(_)
DigitsOf(n) ==
    IF n < 10 THEN <<48 + n>> ELSE Append(DigitsOf(n \div 10), 48 + (n % 10))

NumberToString(n) == IF n < 0 THEN <<45>> \o DigitsOf(0 - n) ELSE DigitsOf(n)

(***************************************************************************)
(* createEmbedding: hashing-trick bag of words.                            *)
(***************************************************************************)
VECTOR_SIZE == 128

\* Names that an object literal {} inherits and that survive lower-casing:
\* wordFreq["constructor"] reads Object (truthy), so its "frequency" is a
\* string; wordFreq["__proto__"] = <string> is ignored and leaves no entry.
WordConstructor == <<99, 111, 110, 115, 116, 114, 117, 99, 116, 111, 114>>
WordProto == <<95, 95, 112, 114, 111, 116, 111, 95, 95>>

\* A number h is kept as <<hi, lo>> with h = hi * 65536 + lo, 0 <= lo < 65536:
\* the rolling hash leaves the 32-bit range (only the operand of << is
\* truncated to 32 bits, the subtraction and the addition are not).
Normalize(hi, lo) == <<hi + (lo \div 65536), lo % 65536>>

\* ToInt32(h) << 5 : bits 0..26 of h moved up by five, read as signed 32 bits
ShiftLeft5(h) ==
    LET low == (h[2] * 32) % 65536
        carry == (h[2] * 32) \div 65536
        high == (((h[1] % 2048) * 32) + carry) % 65536
    IN  <<IF high >= 32768 THEN high - 65536 ELSE high, low>>

\* one step of the reduce: ((hash << 5) - hash) + char.charCodeAt(0)
HashStep(h, c) ==
    LET s == ShiftLeft5(h)
    IN  Normalize(s[1] - h[1], s[2] - h[2] + c)

RECURSIVE HashFrom(_, _, _)
HashFrom(word, i, h) ==
    IF i > Len(word) THEN h
    ELSE Bind(HashStep(h, word[i]), LAMBDA hash : HashFrom(word, i + 1, hash))

hashCode(word) == HashFrom(word, 1, <<0, 0>>)

\* variant: hashCode % VECTOR_SIZE without Math.abs (the remainder takes the
\* sign of the hash)
position_Signed(word) ==
    LET h == hashCode(word)
    IN  IF h[1] >= 0 THEN h[2] % VECTOR_SIZE
        ELSE 0 - ((VECTOR_SIZE - (h[2] % VECTOR_SIZE)) % VECTOR_SIZE)

\* Math.abs(hashCode) % VECTOR_SIZE  (VECTOR_SIZE divides 65536)
position(word) ==
    LET h == hashCode(word)
    IN  IF h[1] >= 0 THEN h[2] % VECTOR_SIZE
        ELSE (VECTOR_SIZE - (h[2] % VECTOR_SIZE)) % VECTOR_SIZE

\* the words createEmbedding counts
Words(text) == SplitWhitespace(StripNonWord(toLowerCase(text)))

\* variant: words of one or two characters counted as well
RetainedWords_KeepsShort(text) == SelectSeq(Words(text), LAMBDA w : Len(w) > 0)

RetainedWords(text) == SelectSeq(Words(text), LAMBDA w : Len(w) > 2)

\* the sum of f over the finite set S of bucket indices
RECURSIVE SumOver(_, _)
SumOver(f, S) ==
    IF S = {} THEN 0
    ELSE LET i == CHOOSE x \in S : TRUE
         IN  f[i] + SumOver(f, S \ {i})

\* The result stands for an array of VECTOR_SIZE components.  counts holds the
\* buckets that were written (every other component is 0); component i is
\* counts[i] / sqrt(mag2) when numeric and mag2 > 0; mag2 = 0 is the all-zero
\* vector; numeric = FALSE is the unnormalised array that holds a string
\* component (its magnitude is NaN).
createEmbedding(text) ==
    Bind(text, LAMBDA str :
    Bind(RetainedWords(str), LAMBDA retained :
    Bind({retained[i] : i \in 1 .. Len(retained)} \ {WordProto}, LAMBDA keys :
    Bind([w \in keys |-> Cardinality({i \in 1 .. Len(retained) : retained[i] = w})],
         LAMBDA wordFreq :
    Bind([w \in keys \ {WordConstructor} |-> position(w)], LAMBDA pos :
    Bind([i \in {pos[w] : w \in DOMAIN pos} |->
              SumOver(wordFreq, {w \in DOMAIN pos : pos[w] = i})], LAMBDA counts :
    Bind([i \in DOMAIN counts |-> counts[i] * counts[i]], LAMBDA squares :
        [counts |-> counts,
         mag2 |-> SumOver(squares, DOMAIN counts),
         numeric |-> WordConstructor \notin keys])))))))

(***************************************************************************)
(* calculateSimilarity: the dot product of two embeddings (both have       *)
(* VECTOR_SIZE components, so the length check never throws).  A score     *)
(* stands for num / sqrt(den2), or for NaN.                                *)
(***************************************************************************)
DotProduct(c1, c2) ==
    LET both == DOMAIN c1 \cap DOMAIN c2
        products == [i \in both |-> c1[i] * c2[i]]
    IN  SumOver(products, both)

calculateSimilarity(embedding1, embedding2) ==
    Bind(embedding1, LAMBDA e1 :
    Bind(embedding2, LAMBDA e2 :
        IF ~e1.numeric \/ ~e2.numeric
        THEN [nan |-> TRUE, num |-> 0, den2 |-> 1]
        ELSE IF e1.mag2 = 0 \/ e2.mag2 = 0
        THEN [nan |-> FALSE, num |-> 0, den2 |-> 1]
        ELSE [nan |-> FALSE,
              num |-> DotProduct(e1.counts, e2.counts),
              den2 |-> e1.mag2 * e2.mag2]))

\* a > b on scores; any comparison with NaN is false
ScoreGreater(a, b) ==
    /\ ~a.nan /\ ~b.nan
    /\ a.num * a.num * b.den2 > b.num * b.num * a.den2

\* the literals 0.2 (relevance threshold) and 0.6 (score of an internet result)
Threshold == [nan |-> FALSE, num |-> 1, den2 |-> 25]
InternetScore == [nan |-> FALSE, num |-> 3, den2 |-> 25]

(***************************************************************************)
(* String literals of ragSystem.ts.                                        *)
(***************************************************************************)
\* 'Internal Knowledge Base'
InternalKnowledgeBase == <<73, 110, 116, 101, 114, 110, 97, 108, 32, 75, 110, 111, 119,
    108, 101, 100, 103, 101, 32, 66, 97, 115, 101>>
\* 'Species Database'
SpeciesDatabase == <<83, 112, 101, 99, 105, 101, 115, 32, 68, 97, 116, 97, 98, 97, 115,
    101>>
\* 'Species Database: '
SpeciesDatabasePrefix == <<83, 112, 101, 99, 105, 101, 115, 32, 68, 97, 116, 97, 98, 97,
    115, 101, 58, 32>>
\* 'User Observation'
UserObservation == <<85, 115, 101, 114, 32, 79, 98, 115, 101, 114, 118, 97, 116, 105,
    111, 110>>
\* 'User Observation: '
UserObservationPrefix == <<85, 115, 101, 114, 32, 79, 98, 115, 101, 114, 118, 97, 116,
    105, 111, 110, 58, 32>>
\* 'Observation of '
ObservationOf == <<79, 98, 115, 101, 114, 118, 97, 116, 105, 111, 110, 32, 111, 102, 32>>
\* ' at coordinates ['
AtCoordinates == <<32, 97, 116, 32, 99, 111, 111, 114, 100, 105, 110, 97, 116, 101, 115,
    32, 91>>
\* ']. '
CloseBracketDot == <<93, 46, 32>>
\* ' ('
OpenParen == <<32, 40>>
\* '): '
CloseParenColon == <<41, 58, 32>>
\* '.'
Dot == <<46>>
\* ' '
Space == <<32>>
\* '. Habitat: '
HabitatLabel == <<46, 32, 72, 97, 98, 105, 116, 97, 116, 58, 32>>
\* '. Type: '
TypeLabel == <<46, 32, 84, 121, 112, 101, 58, 32>>
\* ', '
CommaSpace == <<44, 32>>
\* 'Internet Search Result (Note: Without internet access, this is general information)'
InternetSource == <<73, 110, 116, 101, 114, 110, 101, 116, 32, 83, 101, 97, 114, 99, 104,
    32, 82, 101, 115, 117, 108, 116, 32, 40, 78, 111, 116, 101, 58, 32, 87, 105, 116,
    104, 111, 117, 116, 32, 105, 110, 116, 101, 114, 110, 101, 116, 32, 97, 99, 99, 101,
    115, 115, 44, 32, 116, 104, 105, 115, 32, 105, 115, 32, 103, 101, 110, 101, 114, 97,
    108, 32, 105, 110, 102, 111, 114, 109, 97, 116, 105, 111, 110, 41>>
\* 'Information about '
InformationAbout == <<73, 110, 102, 111, 114, 109, 97, 116, 105, 111, 110, 32, 97, 98,
    111, 117, 116, 32>>
\* ' in Islamabad region could be found in local guidebooks or by contacting the Islamabad Wildlife Management Board. The Margalla Hills National Park is home to diverse wildlife including various bird species, monkeys, and occasionally leopards.'
InternetTextTail == <<32, 105, 110, 32, 73, 115, 108, 97, 109, 97, 98, 97, 100, 32, 114,
    101, 103, 105, 111, 110, 32, 99, 111, 117, 108, 100, 32, 98, 101, 32, 102, 111, 117,
    110, 100, 32, 105, 110, 32, 108, 111, 99, 97, 108, 32, 103, 117, 105, 100, 101, 98,
    111, 111, 107, 115, 32, 111, 114, 32, 98, 121, 32, 99, 111, 110, 116, 97, 99, 116,
    105, 110, 103, 32, 116, 104, 101, 32, 73, 115, 108, 97, 109, 97, 98, 97, 100, 32, 87,
    105, 108, 100, 108, 105, 102, 101, 32, 77, 97, 110, 97, 103, 101, 109, 101, 110, 116,
    32, 66, 111, 97, 114, 100, 46, 32, 84, 104, 101, 32, 77, 97, 114, 103, 97, 108, 108,
    97, 32, 72, 105, 108, 108, 115, 32, 78, 97, 116, 105, 111, 110, 97, 108, 32, 80, 97,
    114, 107, 32, 105, 115, 32, 104, 111, 109, 101, 32, 116, 111, 32, 100, 105, 118, 101,
    114, 115, 101, 32, 119, 105, 108, 100, 108, 105, 102, 101, 32, 105, 110, 99, 108,
    117, 100, 105, 110, 103, 32, 118, 97, 114, 105, 111, 117, 115, 32, 98, 105, 114, 100,
    32, 115, 112, 101, 99, 105, 101, 115, 44, 32, 109, 111, 110, 107, 101, 121, 115, 44,
    32, 97, 110, 100, 32, 111, 99, 99, 97, 115, 105, 111, 110, 97, 108, 108, 121, 32,
    108, 101, 111, 112, 97, 114, 100, 115, 46>>
\* "I don't have specific information about "
NoInfoHead == <<73, 32, 100, 111, 110, 39, 116, 32, 104, 97, 118, 101, 32, 115, 112, 101,
    99, 105, 102, 105, 99, 32, 105, 110, 102, 111, 114, 109, 97, 116, 105, 111, 110, 32,
    97, 98, 111, 117, 116, 32>>
\* '. You might want to consult local experts or biodiversity guides specific to the Islamabad region.'
NoInfoTail == <<46, 32, 89, 111, 117, 32, 109, 105, 103, 104, 116, 32, 119, 97, 110, 116,
    32, 116, 111, 32, 99, 111, 110, 115, 117, 108, 116, 32, 108, 111, 99, 97, 108, 32,
    101, 120, 112, 101, 114, 116, 115, 32, 111, 114, 32, 98, 105, 111, 100, 105, 118,
    101, 114, 115, 105, 116, 121, 32, 103, 117, 105, 100, 101, 115, 32, 115, 112, 101,
    99, 105, 102, 105, 99, 32, 116, 111, 32, 116, 104, 101, 32, 73, 115, 108, 97, 109,
    97, 98, 97, 100, 32, 114, 101, 103, 105, 111, 110, 46>>
\* 'Based on our information: '
BasedOnOurInformation == <<66, 97, 115, 101, 100, 32, 111, 110, 32, 111, 117, 114, 32,
    105, 110, 102, 111, 114, 109, 97, 116, 105, 111, 110, 58, 32>>
\* 'I found some information that might help answer your question about species in Islamabad:\n\n'
SpeciesOpening == <<73, 32, 102, 111, 117, 110, 100, 32, 115, 111, 109, 101, 32, 105,
    110, 102, 111, 114, 109, 97, 116, 105, 111, 110, 32, 116, 104, 97, 116, 32, 109, 105,
    103, 104, 116, 32, 104, 101, 108, 112, 32, 97, 110, 115, 119, 101, 114, 32, 121, 111,
    117, 114, 32, 113, 117, 101, 115, 116, 105, 111, 110, 32, 97, 98, 111, 117, 116, 32,
    115, 112, 101, 99, 105, 101, 115, 32, 105, 110, 32, 73, 115, 108, 97, 109, 97, 98,
    97, 100, 58, 10, 10>>
\* 'Regarding the habitat and location in Islamabad region:\n\n'
LocationOpening == <<82, 101, 103, 97, 114, 100, 105, 110, 103, 32, 116, 104, 101, 32,
    104, 97, 98, 105, 116, 97, 116, 32, 97, 110, 100, 32, 108, 111, 99, 97, 116, 105,
    111, 110, 32, 105, 110, 32, 73, 115, 108, 97, 109, 97, 98, 97, 100, 32, 114, 101,
    103, 105, 111, 110, 58, 10, 10>>
\* 'Here are some relevant observations from our community:\n\n'
ObservationsOpening == <<72, 101, 114, 101, 32, 97, 114, 101, 32, 115, 111, 109, 101, 32,
    114, 101, 108, 101, 118, 97, 110, 116, 32, 111, 98, 115, 101, 114, 118, 97, 116, 105,
    111, 110, 115, 32, 102, 114, 111, 109, 32, 111, 117, 114, 32, 99, 111, 109, 109, 117,
    110, 105, 116, 121, 58, 10, 10>>
\* "I couldn't find specific observations matching your query, but here's what I know:\n\n"
NoObservationsOpening == <<73, 32, 99, 111, 117, 108, 100, 110, 39, 116, 32, 102, 105,
    110, 100, 32, 115, 112, 101, 99, 105, 102, 105, 99, 32, 111, 98, 115, 101, 114, 118,
    97, 116, 105, 111, 110, 115, 32, 109, 97, 116, 99, 104, 105, 110, 103, 32, 121, 111,
    117, 114, 32, 113, 117, 101, 114, 121, 44, 32, 98, 117, 116, 32, 104, 101, 114, 101,
    39, 115, 32, 119, 104, 97, 116, 32, 73, 32, 107, 110, 111, 119, 58, 10, 10>>
\* 'Here\'s what I found about "'
GeneralHead == <<72, 101, 114, 101, 39, 115, 32, 119, 104, 97, 116, 32, 73, 32, 102, 111,
    117, 110, 100, 32, 97, 98, 111, 117, 116, 32, 34>>
\* '" related to Islamabad\'s biodiversity:\n\n'
GeneralTail == <<34, 32, 114, 101, 108, 97, 116, 101, 100, 32, 116, 111, 32, 73, 115,
    108, 97, 109, 97, 98, 97, 100, 39, 115, 32, 98, 105, 111, 100, 105, 118, 101, 114,
    115, 105, 116, 121, 58, 10, 10>>
\* 'I found some information about '
FailureHead == <<73, 32, 102, 111, 117, 110, 100, 32, 115, 111, 109, 101, 32, 105, 110,
    102, 111, 114, 109, 97, 116, 105, 111, 110, 32, 97, 98, 111, 117, 116, 32>>
\* ", but couldn't generate a proper response. Please try asking in a different way."
FailureTail == <<44, 32, 98, 117, 116, 32, 99, 111, 117, 108, 100, 110, 39, 116, 32, 103,
    101, 110, 101, 114, 97, 116, 101, 32, 97, 32, 112, 114, 111, 112, 101, 114, 32, 114,
    101, 115, 112, 111, 110, 115, 101, 46, 32, 80, 108, 101, 97, 115, 101, 32, 116, 114,
    121, 32, 97, 115, 107, 105, 110, 103, 32, 105, 110, 32, 97, 32, 100, 105, 102, 102,
    101, 114, 101, 110, 116, 32, 119, 97, 121, 46>>
\* 'Additional information:\n'
AdditionalInformation == <<65, 100, 100, 105, 116, 105, 111, 110, 97, 108, 32, 105, 110,
    102, 111, 114, 109, 97, 116, 105, 111, 110, 58, 10>>
\* '- '
Bullet == <<45, 32>>
\* '\n'
Newline == <<10>>
\* '\n\n'
BlankLine == <<10, 10>>
\* 'Sorry, I encountered an error while processing your question. Please try again later.'
SystemErrorText == <<83, 111, 114, 114, 121, 44, 32, 73, 32, 101, 110, 99, 111, 117, 110,
    116, 101, 114, 101, 100, 32, 97, 110, 32, 101, 114, 114, 111, 114, 32, 119, 104, 105,
    108, 101, 32, 112, 114, 111, 99, 101, 115, 115, 105, 110, 103, 32, 121, 111, 117,
    114, 32, 113, 117, 101, 115, 116, 105, 111, 110, 46, 32, 80, 108, 101, 97, 115, 101,
    32, 116, 114, 121, 32, 97, 103, 97, 105, 110, 32, 108, 97, 116, 101, 114, 46>>
\* 'System Error'
SystemError == <<83, 121, 115, 116, 101, 109, 32, 69, 114, 114, 111, 114>>

(***************************************************************************)
(* Corpus records and their text projections (retrieveRelevantInfo).       *)
(*   knowledge:   [title, content : string, source : string | number |     *)
(*                 undefined]                                              *)
(*   species:     [scientificName, description, habitat, type : string,    *)
(*                 commonNames : array of strings | undefined]             *)
(*   observation: [speciesName : string, coordinates : array of integers   *)
(*                 | undefined (no location), description : string |       *)
(*                 undefined]                                              *)
(***************************************************************************)
JSArray(items) == [jstype |-> "array", items |-> items]

\* the source label of a result is a value: entry.source || '...' keeps
\* whatever truthy value the stored document has
SourceOr(x, fallback) == IF Falsy(x) THEN JSString(fallback) ELSE x

\* x || fallback inside a template, for x a string or undefined
OrElse(x, fallback) ==
    IF IsString(x) /\ Len(x.chars) > 0 THEN x.chars ELSE fallback

\* entry.title + ' ' + entry.content
knowledgeText(entry) == entry.title \o Space \o entry.content

\* commonNames.join on a record without commonNames is a TypeError
SpeciesThrows(specie) == specie.commonNames.jstype # "array"

speciesText(specie) ==
    specie.scientificName \o OpenParen \o Join(specie.commonNames.items, CommaSpace)
    \o CloseParenColon \o specie.description \o HabitatLabel \o specie.habitat
    \o TypeLabel \o specie.type \o Dot

\* location.coordinates.join on a record without them is a TypeError
ObservationThrows(observation) == observation.coordinates.jstype # "array"

obsText(observation) ==
    LET coords == observation.coordinates.items
    IN  ObservationOf \o observation.speciesName \o AtCoordinates
        \o Join([i \in 1 .. Len(coords) |-> NumberToString(coords[i])], CommaSpace)
        \o CloseBracketDot \o OrElse(observation.description, <<>>)

\* variant: the threshold test made inclusive (>= 0.2)
IsRelevant_Inclusive(similarity) == ~ScoreGreater(Threshold, similarity)

\* similarity > 0.2
IsRelevant(similarity) == ScoreGreater(similarity, Threshold)

KeepRelevant(candidates) == SelectSeq(candidates, LAMBDA d : IsRelevant(d.score))

\* the documents pushed by the loop over the knowledge entries, in order
KnowledgeResults(queryEmbedding, knowledgeEntries) ==
    KeepRelevant([i \in 1 .. Len(knowledgeEntries) |->
        [text |-> knowledgeEntries[i].content,
         source |-> SourceOr(knowledgeEntries[i].source, InternalKnowledgeBase),
         score |-> calculateSimilarity(queryEmbedding,
                       createEmbedding(knowledgeText(knowledgeEntries[i])))]])

\* the documents pushed by the loop over the species
SpeciesResults(queryEmbedding, allSpecies) ==
    KeepRelevant([i \in 1 .. Len(allSpecies) |->
        [text |-> speciesText(allSpecies[i]),
         source |-> JSString(SpeciesDatabasePrefix \o allSpecies[i].scientificName),
         score |-> calculateSimilarity(queryEmbedding,
                       createEmbedding(speciesText(allSpecies[i])))]])

ObservationLimit == 50

\* observations.slice(0, 50)
RecentObservations(allObservations) ==
    SubSeq(allObservations, 1,
           IF Len(allObservations) < ObservationLimit
           THEN Len(allObservations) ELSE ObservationLimit)

\* the documents pushed by the loop over recentObservations
ObservationResults(queryEmbedding, recentObservations) ==
    KeepRelevant([i \in 1 .. Len(recentObservations) |->
        [text |-> obsText(recentObservations[i]),
         source |-> JSString(UserObservationPrefix
                                \o recentObservations[i].speciesName),
         score |-> calculateSimilarity(queryEmbedding,
                       createEmbedding(obsText(recentObservations[i])))]])

\* variant: the sort left out
SortByScore_Unsorted(results) == results

\* results.sort((a, b) => b.score - a.score): stable, descending by score.
\* before[i] counts the documents the sort places ahead of results[i]: those
\* of a greater score, and the earlier ones of the same score.
SortByScore(results) ==
    Bind(results, LAMBDA rs :
        LET n == Len(rs)
            before == [i \in 1 .. n |->
                          Cardinality({j \in 1 .. n :
                              \/ ScoreGreater(rs[j].score, rs[i].score)
                              \/ j < i /\ ~ScoreGreater(rs[i].score, rs[j].score)})]
        IN  [k \in 1 .. n |-> rs[CHOOSE i \in 1 .. n : before[i] = k - 1]])

TopK == 5

\* .slice(0, 5)
SliceTop(results) ==
    SubSeq(results, 1, IF Len(results) < TopK THEN Len(results) ELSE TopK)

\* variant: the first five candidates kept, then sorted
RankResults_SliceFirst(results) == SortByScore(SliceTop(results))

RankResults(results) == SliceTop(SortByScore(results))

(***************************************************************************)
(* searchInternet: the value it resolves to, and its catch block.          *)
(***************************************************************************)
\* variant: a search that finds nothing
searchInternet_Empty(query) == <<>>

searchInternet(query) ==
    << [text |-> InformationAbout \o query \o InternetTextTail,
        source |-> JSString(InternetSource),
        score |-> InternetScore] >>

\* variant: searchInternet without its catch block
OnSearchError_Rethrows == [escaped |-> TRUE, result |-> <<>>]

\* the catch block of searchInternet: the error is swallowed, [] is returned
OnSearchError == [escaped |-> FALSE, result |-> <<>>]

(***************************************************************************)
(* generateResponse.                                                       *)
(***************************************************************************)
SpeciesKeywords == {
    <<119, 104, 97, 116>>,    \* what
    <<115, 112, 101, 99, 105, 101, 115>>,    \* species
    <<97, 110, 105, 109, 97, 108>>,    \* animal
    <<112, 108, 97, 110, 116>>,    \* plant
    <<100, 101, 115, 99, 114, 105, 98, 101>>,    \* describe
    <<105, 100, 101, 110, 116, 105, 102, 121>>    \* identify
    }

\* variant: "found" listed for sightings only
LocationKeywords_NoFound == {
    <<119, 104, 101, 114, 101>>,    \* where
    <<104, 97, 98, 105, 116, 97, 116>>,    \* habitat
    <<108, 105, 118, 101>>,    \* live
    <<108, 111, 99, 97, 116, 105, 111, 110>>,    \* location
    <<97, 114, 101, 97>>,    \* area
    <<114, 101, 103, 105, 111, 110>>    \* region
    }

LocationKeywords == {
    <<119, 104, 101, 114, 101>>,    \* where
    <<104, 97, 98, 105, 116, 97, 116>>,    \* habitat
    <<102, 111, 117, 110, 100>>,    \* found
    <<108, 105, 118, 101>>,    \* live
    <<108, 111, 99, 97, 116, 105, 111, 110>>,    \* location
    <<97, 114, 101, 97>>,    \* area
    <<114, 101, 103, 105, 111, 110>>    \* region
    }

SightingKeywords == {
    <<115, 101, 101, 110>>,    \* seen
    <<115, 112, 111, 116, 116, 101, 100>>,    \* spotted
    <<111, 98, 115, 101, 114, 118, 101, 100>>,    \* observed
    <<115, 105, 103, 104, 116, 105, 110, 103>>,    \* sighting
    <<114, 101, 112, 111, 114, 116, 101, 100>>,    \* reported
    <<102, 111, 117, 110, 100>>    \* found
    }

\* queryTerms.some(term => list.includes(term))
SomeTermIn(queryTerms, list) == \E i \in 1 .. Len(queryTerms) : queryTerms[i] \in list

\* retrievedInfo.find(info => info.source.includes(label)), as the matching indices
WithSource(retrievedInfo, label) ==
    {i \in 1 .. Len(retrievedInfo) :
        /\ IsString(retrievedInfo[i].source)
        /\ Includes(retrievedInfo[i].source.chars, label)}

Min(S) == CHOOSE x \in S : \A y \in S : x <= y

RECURSIVE BulletLines(_, _)
\* infos.map(obs => `- ${obs.text}`).join('\n')
BulletLines(infos, i) ==
    IF i > Len(infos) THEN <<>>
    ELSE Bullet \o infos[i].text
         \o (IF i < Len(infos) THEN Newline \o BulletLines(infos, i + 1) ELSE <<>>)

RECURSIVE AdditionalLines(_, _)
\* forEach(info => response += `- ${info.text}\n`)
AdditionalLines(infos, i) ==
    IF i > Len(infos) THEN <<>>
    ELSE Bullet \o infos[i].text \o Newline \o AdditionalLines(infos, i + 1)

\* variant: the location test made before the species test
Opening_LocationFirst(query, retrievedInfo) ==
    LET queryTerms == SplitWhitespace(toLowerCase(query))
        isSpeciesQuery == SomeTermIn(queryTerms, SpeciesKeywords)
        isLocationQuery == SomeTermIn(queryTerms, LocationKeywords)
        isSightingQuery == SomeTermIn(queryTerms, SightingKeywords)
        speciesInfo == WithSource(retrievedInfo, SpeciesDatabase)
        observations == SelectSeq(retrievedInfo,
                                  LAMBDA info : Includes(info.source.chars, UserObservation))
    IN  IF isLocationQuery THEN LocationOpening
        ELSE IF isSpeciesQuery
        THEN IF speciesInfo # {}
             THEN BasedOnOurInformation \o retrievedInfo[Min(speciesInfo)].text \o BlankLine
             ELSE SpeciesOpening
        ELSE IF isSightingQuery
        THEN IF Len(observations) > 0
             THEN ObservationsOpening \o BulletLines(observations, 1) \o BlankLine
             ELSE NoObservationsOpening
        ELSE GeneralHead \o query \o GeneralTail

\* the opening chosen by the if / else-if chain over the query terms
Opening(query, retrievedInfo) ==
    LET queryTerms == SplitWhitespace(toLowerCase(query))
        isSpeciesQuery == SomeTermIn(queryTerms, SpeciesKeywords)
        isLocationQuery == SomeTermIn(queryTerms, LocationKeywords)
        isSightingQuery == SomeTermIn(queryTerms, SightingKeywords)
        speciesInfo == WithSource(retrievedInfo, SpeciesDatabase)
        observations == SelectSeq(retrievedInfo,
                                  LAMBDA info : Includes(info.source.chars, UserObservation))
    IN  IF isSpeciesQuery
        THEN IF speciesInfo # {}
             THEN BasedOnOurInformation \o retrievedInfo[Min(speciesInfo)].text \o BlankLine
             ELSE SpeciesOpening
        ELSE IF isLocationQuery THEN LocationOpening
        ELSE IF isSightingQuery
        THEN IF Len(observations) > 0
             THEN ObservationsOpening \o BulletLines(observations, 1) \o BlankLine
             ELSE NoObservationsOpening
        ELSE GeneralHead \o query \o GeneralTail

\* the try block throws: info.source.includes is a TypeError when a source
\* is not a string.  find stops at the first element that matches, filter
\* visits every element; the other branches do not look at the sources.
\* (query is a string here and every text is a string.)
ComposeThrows(query, retrievedInfo) ==
    LET queryTerms == SplitWhitespace(toLowerCase(query))
        notString == {i \in 1 .. Len(retrievedInfo) : ~IsString(retrievedInfo[i].source)}
        speciesInfo == WithSource(retrievedInfo, SpeciesDatabase)
    IN  IF SomeTermIn(queryTerms, SpeciesKeywords)
        THEN \E i \in notString : \A j \in speciesInfo : i < j
        ELSE IF SomeTermIn(queryTerms, LocationKeywords) THEN FALSE
        ELSE IF SomeTermIn(queryTerms, SightingKeywords) THEN notString # {}
        ELSE FALSE

\* variant: a failure text that does not mention the query
OnComposeError_Generic(query) == FailureHead \o FailureTail

\* the catch block of generateResponse
OnComposeError(query) == FailureHead \o query \o FailureTail

\* variant: the top-ranked text left to the opening
generateResponse_NoTop(query, retrievedInfo) ==
    IF Len(retrievedInfo) = 0
    THEN NoInfoHead \o query \o NoInfoTail
    ELSE IF ComposeThrows(query, retrievedInfo)
    THEN OnComposeError(query)
    ELSE LET opening == Opening(query, retrievedInfo)
         IN  IF Len(retrievedInfo) > 1
             THEN opening \o AdditionalInformation
                  \o AdditionalLines(SubSeq(retrievedInfo, 2,
                         IF Len(retrievedInfo) < 3 THEN Len(retrievedInfo) ELSE 3), 1)
             ELSE opening

generateResponse(query, retrievedInfo) ==
    IF Len(retrievedInfo) = 0
    THEN NoInfoHead \o query \o NoInfoTail
    ELSE IF ComposeThrows(query, retrievedInfo)
    THEN OnComposeError(query)
    ELSE LET opening == Opening(query, retrievedInfo)
             withTop == IF ~Includes(opening, retrievedInfo[1].text)
                        THEN opening \o retrievedInfo[1].text \o BlankLine
                        ELSE opening
         IN  IF Len(retrievedInfo) > 1
             THEN withTop \o AdditionalInformation
                  \o AdditionalLines(SubSeq(retrievedInfo, 2,
                         IF Len(retrievedInfo) < 3 THEN Len(retrievedInfo) ELSE 3), 1)
             ELSE withTop

(***************************************************************************)
(* answerWithRAG: the result of the normal path and of the catch-all.      *)
(***************************************************************************)
\* variant: the fallback taken only when nothing was retrieved
NeedsFallback_OnlyWhenEmpty(retrievalResults) == Len(retrievalResults) < 1

\* variant: the combined results sorted again by score
Combine_Resorted(retrievalResults, internetResults) ==
    SortByScore(retrievalResults \o internetResults)

\* local information is insufficient
NeedsFallback(retrievalResults) == Len(retrievalResults) < 2

\* [...retrievalResults, ...internetResults]
Combine(retrievalResults, internetResults) == retrievalResults \o internetResults

\* variant: every label listed once, at its first position
Sources_Distinct(retrievalResults) ==
    LET keep == {i \in 1 .. Len(retrievalResults) :
                    \A j \in 1 .. (i - 1) :
                        retrievalResults[j].source # retrievalResults[i].source}
        nth(k) == CHOOSE i \in keep : Cardinality({j \in keep : j < i}) = k - 1
    IN  [k \in 1 .. Cardinality(keep) |-> retrievalResults[nth(k)].source]

\* retrievalResults.map(result => result.source)
Sources(retrievalResults) ==
    [i \in 1 .. Len(retrievalResults) |-> retrievalResults[i].source]

\* variant: the positions of the results reported as related observations
AnswerResult_WithIds(query, retrievalResults) ==
    [text |-> generateResponse(query, retrievalResults),
     sources |-> Sources(retrievalResults),
     relatedObservationIds |-> JSArray([i \in 1 .. Len(retrievalResults) |-> i]),
     relatedSpeciesIds |-> JSArray(<<>>)]

AnswerResult(query, retrievalResults) ==
    [text |-> generateResponse(query, retrievalResults),
     sources |-> Sources(retrievalResults),
     relatedObservationIds |-> JSArray(<<>>),
     relatedSpeciesIds |-> JSArray(<<>>)]

\* the object returned by the catch block: it has no related-id fields
ErrorResult ==
    [text |-> SystemErrorText,
     sources |-> <<JSString(SystemError)>>,
     relatedObservationIds |-> Undefined,
     relatedSpeciesIds |-> Undefined]

(***************************************************************************)
(* Inputs: the records a store may hold and the questions a client sends.  *)
(***************************************************************************)
\* the words and phrases the records and questions below are made of
Text ==
     \* "Owl"
    [owl |-> <<79, 119, 108>>,
     \* "Fox"
     fox |-> <<70, 111, 120>>,
     \* "Owl nests"
     owlNests |-> <<79, 119, 108, 32, 110, 101, 115, 116, 115>>,
     \* "fox den"
     foxDen |-> <<102, 111, 120, 32, 100, 101, 110>>,
     \* "fox fox"
     foxFox |-> <<102, 111, 120, 32, 102, 111, 120>>,
     \* "owl"
     owlLower |-> <<111, 119, 108>>,
     \* "Guide"
     guide |-> <<71, 117, 105, 100, 101>>,
     \* "Bubo bubo"
     bubo |-> <<66, 117, 98, 111, 32, 98, 117, 98, 111>>,
     \* "Big owl"
     bigOwl |-> <<66, 105, 103, 32, 111, 119, 108>>,
     \* "Hills"
     hills |-> <<72, 105, 108, 108, 115>>,
     \* "Athene"
     athene |-> <<65, 116, 104, 101, 110, 101>>,
     \* "Owlet"
     owlet |-> <<79, 119, 108, 101, 116>>,
     \* "small owl"
     smallOwl |-> <<115, 109, 97, 108, 108, 32, 111, 119, 108>>,
     \* "Trees"
     trees |-> <<84, 114, 101, 101, 115>>,
     \* "animal"
     animal |-> <<97, 110, 105, 109, 97, 108>>,
     \* "owl seen"
     owlSeen |-> <<111, 119, 108, 32, 115, 101, 101, 110>>,
     \* "near owl"
     nearOwl |-> <<110, 101, 97, 114, 32, 111, 119, 108>>,
     \* "u1"
     user |-> <<117, 49>>,
     \* "owl"
     qOwl |-> <<111, 119, 108>>,
     \* "nests"
     qNests |-> <<110, 101, 115, 116, 115>>,
     \* "owl elm elm"
     qOwlElm |-> <<111, 119, 108, 32, 101, 108, 109, 32, 101, 108, 109>>,
     \* "x y"
     qShort |-> <<120, 32, 121>>,
     \* "owl constructor"
     qConstructor |-> <<111, 119, 108, 32, 99, 111, 110, 115, 116, 114, 117, 99, 116, 111, 114>>,
     \* "__proto__"
     qProto |-> <<95, 95, 112, 114, 111, 116, 111, 95, 95>>,
     \* "What owl"
     qWhat |-> <<87, 104, 97, 116, 32, 111, 119, 108>>,
     \* "where owl"
     qWhere |-> <<119, 104, 101, 114, 101, 32, 111, 119, 108>>,
     \* "owl seen"
     qSeen |-> <<111, 119, 108, 32, 115, 101, 101, 110>>,
     \* "owl found"
     qFound |-> <<111, 119, 108, 32, 102, 111, 117, 110, 100>>,
     \* "seen where what owl"
     qAll |-> <<115, 101, 101, 110, 32, 119, 104, 101, 114, 101, 32, 119, 104, 97, 116, 32,
               111, 119, 108>>,
     \* "observation mongoose": the hash of the first word is 4417312812
     \* (above 2^32), that of the second is -330794611
     qHash |-> <<111, 98, 115, 101, 114, 118, 97, 116, 105, 111, 110, 32, 109, 111, 110,
                103, 111, 111, 115, 101>>]

\* knowledge entries: scores for the query "owl" are 2/sqrt(5), 0, 1/sqrt(5), 1
K1 == [title |-> Text.owl, content |-> Text.owlNests, source |-> Undefined]
K2 == [title |-> Text.fox, content |-> Text.foxDen, source |-> JSString(Text.guide)]
K3 == [title |-> Text.owl, content |-> Text.foxFox, source |-> JSString(<<>>)]
K4 == [title |-> Text.owl, content |-> Text.owlLower, source |-> JSString(Text.guide)]
\* a knowledge entry stored with a number as its source
K5 == [title |-> Text.owl, content |-> Text.owlLower, source |-> JSNumber(7)]
\* species: scores for "owl" are 2/sqrt(13) and 1/sqrt(8)
S1 == [scientificName |-> Text.bubo, commonNames |-> JSArray(<<Text.owl>>),
       description |-> Text.bigOwl, habitat |-> Text.hills, type |-> Text.animal]
S2 == [scientificName |-> Text.athene, commonNames |-> JSArray(<<Text.owlet, Text.owl>>),
       description |-> Text.smallOwl, habitat |-> Text.trees, type |-> Text.animal]
\* a species document stored without commonNames
S3 == [scientificName |-> Text.bubo, commonNames |-> Undefined,
       description |-> Text.bigOwl, habitat |-> Text.hills, type |-> Text.animal]
\* observations: scores for "owl" are 2/sqrt(7) and 1/sqrt(5)
O1 == [speciesName |-> Text.owl, coordinates |-> JSArray(<<73, 33>>),
       description |-> JSString(Text.owlSeen)]
O2 == [speciesName |-> Text.fox, coordinates |-> JSArray(<<-7, 120>>),
       description |-> JSString(Text.nearOwl)]
\* an observation stored without a location
O3 == [speciesName |-> Text.owl, coordinates |-> Undefined, description |-> Undefined]

\* how many observations the largest store holds
MaxObservations == 51

\* a store of MaxObservations observations in the order createObservation
\* inserted them (find({}) returns them in that order): foxes first, and
\* owls once more than ObservationLimit observations are stored
ManyObservations ==
    [i \in 1 .. MaxObservations |->
        [speciesName |-> IF i > ObservationLimit THEN Text.owl ELSE Text.fox,
         coordinates |-> JSArray(<<i, i>>),
         description |-> Undefined]]

EmptyCorpus == [knowledge |-> <<>>, species |-> <<>>, observations |-> <<>>]
SmallCorpus == [knowledge |-> <<K1>>, species |-> <<S1>>, observations |-> <<>>]

\* the stores of the concurrent specification
Corpora == {EmptyCorpus, SmallCorpus}

\* the stores of the single-request specification
RichCorpora ==
    Corpora \cup
    {[knowledge |-> <<K1, K2, K3, K4>>, species |-> <<S1, S2>>, observations |-> <<O1, O2>>],
     [knowledge |-> <<K3, K1>>, species |-> <<S2>>, observations |-> <<O2, O1>>],
     [knowledge |-> <<K1, K4>>, species |-> <<S1, S3>>, observations |-> <<O1>>],
     [knowledge |-> <<K4, K2>>, species |-> <<S1>>, observations |-> <<O1, O3>>],
     [knowledge |-> <<K2>>, species |-> <<S1>>, observations |-> ManyObservations],
     [knowledge |-> <<K5, K1>>, species |-> <<S1>>, observations |-> <<O1>>]}

\* a request: req.body.question (absent, empty, a number or a string) and
\* req.headers.authorization (a string, or absent)
Inputs ==
    {[question |-> Undefined, userId |-> JSString(Text.user)],
     [question |-> JSString(<<>>), userId |-> JSString(Text.user)],
     [question |-> JSNumber(42), userId |-> JSString(Text.user)],
     [question |-> JSString(Text.qOwl), userId |-> JSString(Text.user)],
     [question |-> JSString(Text.qNests), userId |-> JSString(Text.user)],
     [question |-> JSString(Text.qOwl), userId |-> Undefined]}

\* the requests of the single-request specification
SingleInputs ==
    Inputs \cup
    {[question |-> JSNumber(0), userId |-> JSString(Text.user)],
     [question |-> JSString(Text.qOwlElm), userId |-> JSString(Text.user)],
     [question |-> JSString(Text.qShort), userId |-> JSString(Text.user)],
     [question |-> JSString(Text.qConstructor), userId |-> JSString(Text.user)],
     [question |-> JSString(Text.qProto), userId |-> JSString(Text.user)],
     [question |-> JSString(Text.qWhat), userId |-> JSString(Text.user)],
     [question |-> JSString(Text.qWhere), userId |-> JSString(Text.user)],
     [question |-> JSString(Text.qSeen), userId |-> JSString(Text.user)],
     [question |-> JSString(Text.qFound), userId |-> JSString(Text.user)],
     [question |-> JSString(Text.qAll), userId |-> JSString(Text.user)],
     [question |-> JSString(Text.qHash), userId |-> JSString(Text.user)]}

NumRequests == 2
Requests == 1 .. NumRequests

(***************************************************************************)
(* State.                                                                  *)
(***************************************************************************)
VARIABLES
    knowledge,          \* collection 'knowledge'
    species,            \* collection 'species'
    observations,       \* collection 'observations', in insertion order
    queries,            \* collection 'queries' (the query log)
    pc,                 \* per request: where its handler is suspended
    question,           \* per request: req.body.question
    userId,             \* per request: req.headers.authorization
    results,            \* per request: results of retrieveRelevantInfo
    internetResults,    \* per request: internetResults of answerWithRAG
    retrievalResults,   \* per request: retrievalResults of answerWithRAG
    answer,             \* per request: the value answerWithRAG resolved to
    response,           \* per request: the HTTP response sent
    insertedId,         \* per request: position of its entry in queries, or 0
    ragCalls,           \* per request: calls of answerWithRAG
    searchCalls,        \* per request: calls of searchInternet
    pipelineThrew,      \* per request: answerWithRAG's catch block ran
    searchThrew,        \* per request: searchInternet's catch block ran
    queryEmbedding,     \* per request: queryEmbedding of retrieveRelevantInfo
    recentObservations, \* per request: recentObservations of retrieveRelevantInfo
    unavailable,        \* the collections whose reads fail (find() rejects)
    model,              \* imageProcessor: the module-level handle (0 is null)
    loadCalls,          \* imageProcessor: calls of mobilenet.load() so far
    modelAssignments,   \* imageProcessor: assignments to model so far
    imagePc,            \* per task: where loadModel / identifySpecies is suspended
    imageLoad,          \* per task: the load it awaits (its number among loadCalls)
    imageResult,        \* per identifySpecies call: the model it classified with,
                        \* or "Unknown Species", or "none" so far
    submitPc,           \* per submission: where its handler is suspended
    submitted,          \* per submission: the request (file, body, authorization)
    identifiedSpecies,  \* per submission: identifiedSpecies of the handler
    points,             \* per submission: points of calculatePoints
    submitResponse,     \* per submission: the HTTP status sent, or 0
    createdSpecies,     \* per submission: position of the species record it
                        \* inserted, or 0
    users               \* collection 'users': the points of each user

imageVars == <<model, loadCalls, modelAssignments, imagePc, imageLoad, imageResult>>

submitVars == <<submitPc, submitted, identifiedSpecies, points, submitResponse,
               createdSpecies, users>>

vars == <<knowledge, species, observations, queries, pc, question, userId, results,
          internetResults, retrievalResults, answer, response, insertedId, ragCalls,
          searchCalls, pipelineThrew, searchThrew, queryEmbedding, recentObservations,
          unavailable, imageVars, submitVars>>

corpusVars == <<knowledge, species, observations>>

NoAnswer == [text |-> <<>>, sources |-> <<>>,
             relatedObservationIds |-> Undefined, relatedSpeciesIds |-> Undefined]
NoResponse == [status |-> 0]
NoEmbedding == [counts |-> <<>>, mag2 |-> 0, numeric |-> TRUE]

InitRequests ==
    /\ queries = <<>>
    /\ pc = [r \in Requests |-> "idle"]
    /\ question = [r \in Requests |-> Undefined]
    /\ userId = [r \in Requests |-> Undefined]
    /\ results = [r \in Requests |-> <<>>]
    /\ internetResults = [r \in Requests |-> <<>>]
    /\ retrievalResults = [r \in Requests |-> <<>>]
    /\ answer = [r \in Requests |-> NoAnswer]
    /\ response = [r \in Requests |-> NoResponse]
    /\ insertedId = [r \in Requests |-> 0]
    /\ ragCalls = [r \in Requests |-> 0]
    /\ searchCalls = [r \in Requests |-> 0]
    /\ pipelineThrew = [r \in Requests |-> FALSE]
    /\ searchThrew = [r \in Requests |-> FALSE]
    /\ queryEmbedding = [r \in Requests |-> NoEmbedding]
    /\ recentObservations = [r \in Requests |-> <<>>]

ragVars == <<knowledge, species, observations, queries, pc, question, userId, results,
             internetResults, retrievalResults, answer, response, insertedId, ragCalls,
             searchCalls, pipelineThrew, searchThrew, queryEmbedding, recentObservations,
             unavailable>>

\* how many times identifySpecies is called
NumImages == 2

\* the calls of identifySpecies; task 0 is the loadModel() call at import
ImageCalls == 1 .. NumImages
ImageTasks == 0 .. NumImages

NoImageResult == [species |-> "none", by |-> 0]

\* let model = null, before the module's last statement has run
InitImage ==
    /\ model = 0
    /\ loadCalls = 0
    /\ modelAssignments = 0
    /\ imagePc = [t \in ImageTasks |-> "idle"]
    /\ imageLoad = [t \in ImageTasks |-> 0]
    /\ imageResult = [t \in ImageCalls |-> NoImageResult]

\* how many POST /api/observations requests are handled
NumSubmissions == 2

Submissions == 1 .. NumSubmissions

NoSubmission == [file |-> FALSE, speciesName |-> Undefined, description |-> Undefined,
                 longitude |-> <<>>, latitude |-> <<>>, authorization |-> Undefined]

InitSubmit ==
    /\ submitPc = [s \in Submissions |-> "idle"]
    /\ submitted = [s \in Submissions |-> NoSubmission]
    /\ identifiedSpecies = [s \in Submissions |-> <<>>]
    /\ points = [s \in Submissions |-> 0]
    /\ submitResponse = [s \in Submissions |-> 0]
    /\ createdSpecies = [s \in Submissions |-> 0]
    /\ users = [u \in {Text.user} |-> 0]

\* the collections read by retrieveRelevantInfo
Collections == {"knowledge", "species", "observations"}

\* the outages of the concurrent specification (the single-request
\* specification takes every subset of Collections)
Outages == {{}, {"knowledge"}, Collections}

Init ==
    /\ \E c \in Corpora :
          /\ knowledge = c.knowledge
          /\ species = c.species
          /\ observations = c.observations
    /\ unavailable \in Outages
    /\ InitRequests
    /\ InitImage
    /\ InitSubmit

(***************************************************************************)
(* POST /api/rag/ask, one action per stretch between two awaits.           *)
(***************************************************************************)
\* createEmbedding(query) calls query.toLowerCase(): a TypeError unless a string
EmbeddingThrows(query) == ~IsString(query)

\* variant: answerWithRAG without its catch block
OnPipelineError_Rethrows == [escaped |-> TRUE, result |-> ErrorResult]

\* the catch block of answerWithRAG: the error is swallowed
OnPipelineError == [escaped |-> FALSE, result |-> ErrorResult]

\* the catch block of the route handler
Respond500 == [status |-> 500, message |-> "Error processing your question"]

Respond400 == [status |-> 400, message |-> "Question is required"]

Respond401 == [status |-> 401, message |-> "Unauthorized"]

\* the middleware mounted on /api/rag: next() is called when the request has
\* an authorization header (the header's value is not looked at)
isAuthenticated(authorization) == ~Falsy(authorization)

Respond200(q, a) ==
    [status |-> 200, question |-> q, answer |-> a.text, sources |-> a.sources]

\* x || [] for an array or undefined
OrEmpty(x) == IF x.jstype = "array" THEN x.items ELSE <<>>

\* variant: the log entry written without the sources
QueryData_NoSources(u, q, a) ==
    [userId |-> u, question |-> q, answer |-> a.text,
     relatedObservationIds |-> OrEmpty(a.relatedObservationIds),
     relatedSpeciesIds |-> OrEmpty(a.relatedSpeciesIds),
     sourcesUsed |-> <<>>]

\* the document handed to storage.createQuery
QueryData(u, q, a) ==
    [userId |-> u, question |-> q, answer |-> a.text,
     relatedObservationIds |-> OrEmpty(a.relatedObservationIds),
     relatedSpeciesIds |-> OrEmpty(a.relatedSpeciesIds),
     sourcesUsed |-> a.sources]

\* answerWithRAG resolved to a: the handler goes on to storage.createQuery
\* variant: the response sent as soon as answerWithRAG resolved, before the
\* log write
Resolved_RespondsFirst(r, a) ==
    /\ answer' = [answer EXCEPT ![r] = a]
    /\ pc' = [pc EXCEPT ![r] = "log"]
    /\ response' = [response EXCEPT ![r] = Respond200(question[r], a)]

Resolved(r, a) ==
    /\ answer' = [answer EXCEPT ![r] = a]
    /\ pc' = [pc EXCEPT ![r] = "log"]
    /\ UNCHANGED response

\* answerWithRAG failed in its try block
Failed(r) ==
    /\ pipelineThrew' = [pipelineThrew EXCEPT ![r] = TRUE]
    /\ IF OnPipelineError.escaped
       THEN /\ response' = [response EXCEPT ![r] = Respond500]
            /\ pc' = [pc EXCEPT ![r] = "done"]
            /\ UNCHANGED answer
       ELSE Resolved(r, OnPipelineError.result)

\* retrieveRelevantInfo resolved to returned: lines 308-314 and, when no
\* fallback is needed, lines 316-332
Retrieved(r, returned) ==
    /\ results' = [results EXCEPT ![r] = returned]
    /\ retrievalResults' = [retrievalResults EXCEPT ![r] = returned]
    /\ IF NeedsFallback(returned)
       THEN /\ searchCalls' = [searchCalls EXCEPT ![r] = @ + 1]
            /\ pc' = [pc EXCEPT ![r] = "search"]
            /\ UNCHANGED <<answer, response>>
       ELSE /\ Resolved(r, AnswerResult(question[r].chars, returned))
            /\ UNCHANGED searchCalls

\* variant: a catch block that returns what had been collected so far
OnRetrieveError_KeepsCollected(collected) == collected

\* the catch block of retrieveRelevantInfo: the documents collected before the
\* throw are dropped and [] is returned
OnRetrieveError(collected) == <<>>

\* variant: a failed read answered with the stored documents all the same
FindAll_IgnoresFailure(collection, ok) == collection

\* getAllKnowledge / getAllSpecies / getAllObservations: find({}).toArray(),
\* and [] from the catch block when the read fails
FindAll(collection, ok) == IF ok THEN collection ELSE <<>>

\* the request arrives: the middleware, the handler's validation, then
\* answerWithRAG up to its first await (requests are numbered in their order
\* of arrival; question is the handler's constant, set when the handler runs)
Receive(r, q, u) ==
    /\ pc[r] = "idle"
    /\ IF r = 1 THEN TRUE ELSE pc[r - 1] # "idle"
    /\ userId' = [userId EXCEPT ![r] = u]
    /\ IF ~isAuthenticated(u)
       THEN /\ response' = [response EXCEPT ![r] = Respond401]
            /\ pc' = [pc EXCEPT ![r] = "done"]
            /\ UNCHANGED <<question, answer, ragCalls, pipelineThrew>>
       ELSE /\ question' = [question EXCEPT ![r] = q]
            /\ IF Falsy(q)
               THEN /\ response' = [response EXCEPT ![r] = Respond400]
                    /\ pc' = [pc EXCEPT ![r] = "done"]
                    /\ UNCHANGED <<answer, ragCalls, pipelineThrew>>
               ELSE /\ ragCalls' = [ragCalls EXCEPT ![r] = @ + 1]
                    /\ IF EmbeddingThrows(q)
                       THEN Failed(r)
                       ELSE /\ queryEmbedding' = [queryEmbedding EXCEPT ![r] =
                                                      createEmbedding(q.chars)]
                            /\ pc' = [pc EXCEPT ![r] = "knowledge"]
                            /\ UNCHANGED <<answer, response, pipelineThrew>>
    /\ IF ~isAuthenticated(u) \/ Falsy(q) \/ EmbeddingThrows(q)
       THEN UNCHANGED queryEmbedding ELSE TRUE
    /\ UNCHANGED <<corpusVars, queries, results, internetResults, retrievalResults,
                   insertedId, searchCalls, searchThrew, recentObservations,
                   unavailable, imageVars, submitVars>>

\* variant: results kept in one array shared by the invocations and never
\* reset, so an invocation starts from what the one before it had pushed
GetKnowledge_SharedResults(r, ok) ==
    /\ pc[r] = "knowledge"
    /\ LET knowledgeEntries == FindAll(knowledge, ok)
       IN  results' = [results EXCEPT ![r] =
               (IF r = 1 THEN <<>> ELSE results[r - 1])
               \o KnowledgeResults(queryEmbedding[r], knowledgeEntries)]
    /\ pc' = [pc EXCEPT ![r] = "species"]
    /\ UNCHANGED <<corpusVars, queries, question, userId, internetResults,
                   retrievalResults, answer, response, insertedId, ragCalls,
                   searchCalls, pipelineThrew, searchThrew, queryEmbedding,
                   recentObservations, unavailable, imageVars, submitVars>>

\* storage.getAllKnowledge() resolves (to [] when the read failed)
GetKnowledge(r, ok) ==
    /\ pc[r] = "knowledge"
    /\ LET knowledgeEntries == FindAll(knowledge, ok)
       IN  results' = [results EXCEPT ![r] =
               KnowledgeResults(queryEmbedding[r], knowledgeEntries)]
    /\ pc' = [pc EXCEPT ![r] = "species"]
    /\ UNCHANGED <<corpusVars, queries, question, userId, internetResults,
                   retrievalResults, answer, response, insertedId, ragCalls,
                   searchCalls, pipelineThrew, searchThrew, queryEmbedding,
                   recentObservations, unavailable, imageVars, submitVars>>

\* storage.getAllSpecies() resolves
GetSpecies(r, ok) ==
    /\ pc[r] = "species"
    /\ LET allSpecies == FindAll(species, ok)
           thrown == {i \in 1 .. Len(allSpecies) : SpeciesThrows(allSpecies[i])}
           first == CHOOSE i \in thrown : \A j \in thrown : i <= j
       IN  IF thrown # {}
           THEN Retrieved(r, OnRetrieveError(results[r] \o
                    SpeciesResults(queryEmbedding[r], SubSeq(allSpecies, 1, first - 1))))
           ELSE /\ results' = [results EXCEPT ![r] = @ \o
                       SpeciesResults(queryEmbedding[r], allSpecies)]
                /\ pc' = [pc EXCEPT ![r] = "observations"]
                /\ UNCHANGED <<retrievalResults, answer, response, searchCalls>>
    /\ UNCHANGED <<corpusVars, queries, question, userId, internetResults,
                   insertedId, ragCalls, pipelineThrew, searchThrew, queryEmbedding,
                   recentObservations, unavailable, imageVars, submitVars>>

\* storage.getAllObservations() resolves; retrieveRelevantInfo returns
GetObservations(r, ok) ==
    /\ pc[r] = "observations"
    /\ LET recent == RecentObservations(FindAll(observations, ok))
           thrown == {i \in 1 .. Len(recent) : ObservationThrows(recent[i])}
           first == CHOOSE i \in thrown : \A j \in thrown : i <= j
       IN  /\ recentObservations' = [recentObservations EXCEPT ![r] = recent]
           /\ IF thrown # {}
              THEN Retrieved(r, OnRetrieveError(results[r] \o
                       ObservationResults(queryEmbedding[r], SubSeq(recent, 1, first - 1))))
              ELSE Retrieved(r, RankResults(results[r] \o
                       ObservationResults(queryEmbedding[r], recent)))
    /\ UNCHANGED <<corpusVars, queries, question, userId, internetResults,
                   insertedId, ragCalls, pipelineThrew, searchThrew, queryEmbedding,
                   unavailable, imageVars, submitVars>>

\* the awaited external step of searchInternet settles (ok: it resolves, as
\* the stub of the source always does; ~ok: it throws inside the try block);
\* then the rest of answerWithRAG runs
SearchInternet(r, ok) ==
    /\ pc[r] = "search"
    /\ searchThrew' = [searchThrew EXCEPT ![r] = ~ok]
    /\ IF ~ok /\ OnSearchError.escaped
       THEN /\ Failed(r)
            /\ UNCHANGED <<internetResults, retrievalResults>>
       ELSE LET found == IF ok THEN searchInternet(question[r].chars)
                         ELSE OnSearchError.result
                combined == Combine(retrievalResults[r], found)
            IN  /\ internetResults' = [internetResults EXCEPT ![r] = found]
                /\ retrievalResults' = [retrievalResults EXCEPT ![r] = combined]
                /\ Resolved(r, AnswerResult(question[r].chars, combined))
                /\ UNCHANGED pipelineThrew
    /\ UNCHANGED <<corpusVars, queries, question, userId, results, insertedId,
                   ragCalls, searchCalls, queryEmbedding, recentObservations,
                   unavailable, imageVars, submitVars>>

\* variant: the answer is also stored as a knowledge entry
CreateQuery_IntoKnowledge(r) ==
    /\ pc[r] = "log"
    /\ queries' = Append(queries, QueryData(userId[r], question[r], answer[r]))
    /\ knowledge' = Append(knowledge, [title |-> <<>>, content |-> answer[r].text,
                                       source |-> Undefined])
    /\ insertedId' = [insertedId EXCEPT ![r] = Len(queries) + 1]
    /\ pc' = [pc EXCEPT ![r] = "respond"]
    /\ UNCHANGED <<species, observations, question, userId, results, internetResults,
                   retrievalResults, answer, response, ragCalls, searchCalls,
                   pipelineThrew, searchThrew, queryEmbedding, recentObservations,
                   unavailable, imageVars, submitVars>>

\* insertOne on 'queries' succeeds
CreateQuery(r) ==
    /\ pc[r] = "log"
    /\ queries' = Append(queries, QueryData(userId[r], question[r], answer[r]))
    /\ insertedId' = [insertedId EXCEPT ![r] = Len(queries) + 1]
    /\ pc' = [pc EXCEPT ![r] = "respond"]
    /\ UNCHANGED <<corpusVars, question, userId, results, internetResults,
                   retrievalResults, answer, response, ragCalls, searchCalls,
                   pipelineThrew, searchThrew, queryEmbedding, recentObservations,
                   unavailable, imageVars, submitVars>>

\* insertOne fails: createQuery rethrows, the handler's catch answers
CreateQueryFails(r) ==
    /\ pc[r] = "log"
    /\ response' = [response EXCEPT ![r] = Respond500]
    /\ pc' = [pc EXCEPT ![r] = "done"]
    /\ UNCHANGED <<corpusVars, queries, question, userId, results, internetResults,
                   retrievalResults, answer, insertedId, ragCalls, searchCalls,
                   pipelineThrew, searchThrew, queryEmbedding, recentObservations,
                   unavailable, imageVars, submitVars>>

\* createQuery resolved: res.status(200).json(...)
SendAnswer(r) ==
    /\ pc[r] = "respond"
    /\ response' = [response EXCEPT ![r] = Respond200(question[r], answer[r])]
    /\ pc' = [pc EXCEPT ![r] = "done"]
    /\ UNCHANGED <<corpusVars, queries, question, userId, results, internetResults,
                   retrievalResults, answer, insertedId, ragCalls, searchCalls,
                   pipelineThrew, searchThrew, queryEmbedding, recentObservations,
                   unavailable, imageVars, submitVars>>

Next ==
    \/ \E r \in Requests, inp \in Inputs : Receive(r, inp.question, inp.userId)
    \/ \E r \in Requests : GetKnowledge(r, "knowledge" \notin unavailable)
    \/ \E r \in Requests : GetSpecies(r, "species" \notin unavailable)
    \/ \E r \in Requests : GetObservations(r, "observations" \notin unavailable)
    \/ \E r \in Requests, ok \in BOOLEAN : SearchInternet(r, ok)
    \/ \E r \in Requests : CreateQuery(r)
    \/ \E r \in Requests : CreateQueryFails(r)
    \/ \E r \in Requests : SendAnswer(r)

Spec == Init /\ [][Next]_vars

\* the continuations of request r's handler: each runs when the promise it
\* awaits settles (a storage call, or the timer of searchInternet)
Continue(r) ==
    \/ GetKnowledge(r, "knowledge" \notin unavailable)
    \/ GetSpecies(r, "species" \notin unavailable)
    \/ GetObservations(r, "observations" \notin unavailable)
    \/ \E ok \in BOOLEAN : SearchInternet(r, ok)
    \/ CreateQuery(r)
    \/ CreateQueryFails(r)
    \/ SendAnswer(r)

\* Every awaited storage call and the setTimeout of searchInternet settle, and
\* the event loop runs the continuation of a settled promise: a handler that
\* is suspended at an await is eventually resumed.
SpecLive == Spec /\ \A r \in Requests : WF_vars(Continue(r))

(***************************************************************************)
(* The single-request specification: one request over richer stores.       *)
(***************************************************************************)
InitSingle ==
    /\ \E c \in RichCorpora :
          /\ knowledge = c.knowledge
          /\ species = c.species
          /\ observations = c.observations
    /\ unavailable \in SUBSET Collections
    /\ InitRequests
    /\ InitImage
    /\ InitSubmit

NextSingle ==
    \/ \E inp \in SingleInputs : Receive(1, inp.question, inp.userId)
    \/ GetKnowledge(1, "knowledge" \notin unavailable)
    \/ GetSpecies(1, "species" \notin unavailable)
    \/ GetObservations(1, "observations" \notin unavailable)
    \/ \E ok \in BOOLEAN : SearchInternet(1, ok)
    \/ CreateQuery(1)
    \/ CreateQueryFails(1)
    \/ SendAnswer(1)

SpecSingle == InitSingle /\ [][NextSingle]_vars

(***************************************************************************)
(* imageProcessor: the module-level model handle, loadModel() at import    *)
(* and identifySpecies, one action per stretch between two awaits.         *)
(***************************************************************************)
\* loadModel() up to its first await, called by task t: mobilenet.load() is
\* called when model is null, and model is returned otherwise
CallLoadModel(t) ==
    IF model = 0
    THEN /\ loadCalls' = loadCalls + 1
         /\ imageLoad' = [imageLoad EXCEPT ![t] = loadCalls + 1]
         /\ imagePc' = [imagePc EXCEPT ![t] = "load"]
    ELSE /\ imagePc' = [imagePc EXCEPT ![t] = IF t = 0 THEN "done" ELSE "loaded"]
         /\ UNCHANGED <<loadCalls, imageLoad>>

\* identifySpecies from readFileSync on: an unreadable image throws into the
\* catch block, and model!.classify is called otherwise
StartClassify(t, readable) ==
    IF readable
    THEN /\ imagePc' = [imagePc EXCEPT ![t] = "classify"]
         /\ imageResult' = [imageResult EXCEPT ![t] = [species |-> "pending", by |-> model]]
    ELSE /\ imagePc' = [imagePc EXCEPT ![t] = "done"]
         /\ imageResult' = [imageResult EXCEPT
                               ![t] = [species |-> "Unknown Species", by |-> 0]]

\* the module's last statement: loadModel().catch(...)
ImportModule ==
    /\ imagePc[0] = "idle"
    /\ CallLoadModel(0)
    /\ UNCHANGED <<model, modelAssignments, imageResult, ragVars, submitVars>>

\* a call of identifySpecies, up to its first await
IdentifySpecies(t, readable) ==
    /\ imagePc[0] # "idle"
    /\ imagePc[t] = "idle"
    /\ IF model = 0
       THEN CallLoadModel(t) /\ UNCHANGED imageResult
       ELSE StartClassify(t, readable) /\ UNCHANGED <<loadCalls, imageLoad>>
    /\ UNCHANGED <<model, modelAssignments, ragVars, submitVars>>

\* the promise of mobilenet.load() awaited by task t settles: model is
\* assigned and returned, or loadModel throws (to the .catch of the import, or
\* into the catch block of identifySpecies)
LoadSettles(t, ok) ==
    /\ imagePc[t] = "load"
    /\ IF ok
       THEN /\ model' = imageLoad[t]
            /\ modelAssignments' = modelAssignments + 1
            /\ imagePc' = [imagePc EXCEPT ![t] = IF t = 0 THEN "done" ELSE "loaded"]
            /\ UNCHANGED imageResult
       ELSE /\ imagePc' = [imagePc EXCEPT ![t] = "done"]
            /\ imageResult' =
                  IF t = 0 THEN imageResult
                  ELSE [imageResult EXCEPT ![t] = [species |-> "Unknown Species", by |-> 0]]
            /\ UNCHANGED <<model, modelAssignments>>
    /\ UNCHANGED <<loadCalls, imageLoad, ragVars, submitVars>>

\* identifySpecies resumes after await loadModel()
ResumeIdentify(t, readable) ==
    /\ imagePc[t] = "loaded"
    /\ StartClassify(t, readable)
    /\ UNCHANGED <<model, loadCalls, modelAssignments, imageLoad, ragVars, submitVars>>

\* the promise of classify settles: a mapped species is returned, or the
\* catch block returns 'Unknown Species'
ClassifySettles(t, ok) ==
    /\ imagePc[t] = "classify"
    /\ imagePc' = [imagePc EXCEPT ![t] = "done"]
    /\ imageResult' = [imageResult EXCEPT
                          ![t] = IF ok THEN [species |-> "identified", by |-> @.by]
                                 ELSE [species |-> "Unknown Species", by |-> 0]]
    /\ UNCHANGED <<model, loadCalls, modelAssignments, imageLoad, ragVars, submitVars>>

InitImages ==
    /\ knowledge = <<>>
    /\ species = <<>>
    /\ observations = <<>>
    /\ unavailable = {}
    /\ InitRequests
    /\ InitImage
    /\ InitSubmit

NextImage ==
    \/ ImportModule
    \/ \E t \in ImageCalls, readable \in BOOLEAN : IdentifySpecies(t, readable)
    \/ \E t \in ImageTasks, ok \in BOOLEAN : LoadSettles(t, ok)
    \/ \E t \in ImageCalls, readable \in BOOLEAN : ResumeIdentify(t, readable)
    \/ \E t \in ImageCalls, ok \in BOOLEAN : ClassifySettles(t, ok)

SpecImage == InitImages /\ [][NextImage]_vars

(***************************************************************************)
(* POST /api/observations, one action per stretch between two awaits.      *)
(***************************************************************************)
\* result.species of identifySpecies: a name of classMap ('Owl'), or
\* 'Unknown Species'
IdentifiedNames ==
    {Text.owl,
     <<85, 110, 107, 110, 111, 119, 110, 32, 83, 112, 101, 99, 105, 101, 115>>}

\* the requests: req.file, the body fields and req.headers.authorization;
\* longitude and latitude are "73", "33" or "74", "34" (two places more than
\* 1 km apart)
SubmitInputs ==
    LET Body(name, lon, lat) ==
            [file |-> TRUE, speciesName |-> name, description |-> Undefined,
             longitude |-> lon, latitude |-> lat,
             authorization |-> JSString(Text.user)]
    IN  {Body(JSString(Text.owl), <<55, 51>>, <<51, 51>>),
         Body(JSString(Text.owl), <<55, 52>>, <<51, 52>>),
         Body(JSString(Text.owlLower), <<55, 51>>, <<51, 51>>),
         [Body(Undefined, <<55, 51>>, <<51, 51>>)
              EXCEPT !.description = JSString(Text.owlSeen)],
         [Body(JSString(Text.owl), <<55, 51>>, <<51, 51>>) EXCEPT !.file = FALSE],
         [Body(JSString(Text.owl), <<55, 51>>, <<51, 51>>)
              EXCEPT !.authorization = Undefined]}

\* a species document stored before any observation was submitted
SeededOwl == [S1 EXCEPT !.scientificName = Text.owl]

\* let points = 10; points += 25; points += 15
BasePoints == 10
NewSpeciesBonus == 25
NewAreaBonus == 15

\* parseFloat of a string of decimal digits
parseFloat(s) ==
    SumOver([i \in 1 .. Len(s) |-> (s[i] - 48) * 10 ^ (Len(s) - i)], 1 .. Len(s))

\* location.coordinates of the handler
Location(s) == <<parseFloat(submitted[s].longitude), parseFloat(submitted[s].latitude)>>

\* storage.getSpecies: the position of the first document of that
\* scientificName, or 0 for null; a failed read is caught and gives null
getSpecies(scientificName, ok) ==
    LET found == {i \in 1 .. Len(species) : species[i].scientificName = scientificName}
    IN  IF ok /\ found # {} THEN Min(found) ELSE 0

\* storage.getObservationsNearLocation(longitude, latitude, 1000): of the
\* places of SubmitInputs only the same place lies within 1000 m; a failed
\* read is caught and gives []
getObservationsNearLocation(longitude, latitude, ok) ==
    IF ok
    THEN SelectSeq(observations,
                   LAMBDA o : /\ o.coordinates.jstype = "array"
                              /\ o.coordinates.items = <<longitude, latitude>>)
    ELSE <<>>

\* the document passed to storage.createObservation
NewObservation(s) ==
    [speciesName |-> identifiedSpecies[s],
     coordinates |-> JSArray(Location(s)),
     description |-> JSString(OrElse(submitted[s].description, <<>>)),
     userId |-> submitted[s].authorization,
     pointsAwarded |-> points[s]]

\* the document passed to storage.createSpecies: type 'other', description
\* 'Observed in Islamabad area' unless one was sent, habitat 'Islamabad region'
NewSpecies(s) ==
    [scientificName |-> identifiedSpecies[s],
     commonNames |-> JSArray(<<>>),
     description |-> OrElse(submitted[s].description,
                            <<79, 98, 115, 101, 114, 118, 101, 100, 32, 105, 110, 32, 73,
                              115, 108, 97, 109, 97, 98, 97, 100, 32, 97, 114, 101, 97>>),
     habitat |-> <<73, 115, 108, 97, 109, 97, 98, 97, 100, 32, 114, 101, 103, 105, 111,
                   110>>,
     type |-> <<111, 116, 104, 101, 114>>]

\* the handler ends: res.status(status)
Responded(s, status) ==
    /\ submitPc' = [submitPc EXCEPT ![s] = "done"]
    /\ submitResponse' = [submitResponse EXCEPT ![s] = status]

\* the request arrives: isAuthenticated, the test of req.file, and the
\* handler up to its first await (identifySpecies, or getSpecies in
\* calculatePoints)
SubmitObservation(s, inp) ==
    /\ submitPc[s] = "idle"
    /\ submitted' = [submitted EXCEPT ![s] = inp]
    /\ IF ~isAuthenticated(inp.authorization)
       THEN Responded(s, 401) /\ UNCHANGED <<identifiedSpecies, points>>
       ELSE IF ~inp.file
       THEN Responded(s, 400) /\ UNCHANGED <<identifiedSpecies, points>>
       ELSE IF Falsy(inp.speciesName)
       THEN /\ submitPc' = [submitPc EXCEPT ![s] = "identify"]
            /\ UNCHANGED <<identifiedSpecies, points, submitResponse>>
       ELSE /\ identifiedSpecies' = [identifiedSpecies EXCEPT ![s] = inp.speciesName.chars]
            /\ points' = [points EXCEPT ![s] = BasePoints]
            /\ submitPc' = [submitPc EXCEPT ![s] = "pointsSpecies"]
            /\ UNCHANGED submitResponse
    /\ UNCHANGED <<createdSpecies, users, ragVars, imageVars>>

\* identifySpecies resolves (it catches its own errors), and calculatePoints
\* runs up to its first await
Identified(s, name) ==
    /\ submitPc[s] = "identify"
    /\ identifiedSpecies' = [identifiedSpecies EXCEPT ![s] = name]
    /\ points' = [points EXCEPT ![s] = BasePoints]
    /\ submitPc' = [submitPc EXCEPT ![s] = "pointsSpecies"]
    /\ UNCHANGED <<submitted, submitResponse, createdSpecies, users, ragVars, imageVars>>

\* calculatePoints after storage.getSpecies: the bonus of a new species, or
\* the query for nearby observations
PointsGetSpecies(s, ok) ==
    /\ submitPc[s] = "pointsSpecies"
    /\ IF getSpecies(identifiedSpecies[s], ok) = 0
       THEN /\ points' = [points EXCEPT ![s] = @ + NewSpeciesBonus]
            /\ submitPc' = [submitPc EXCEPT ![s] = "createObservation"]
       ELSE /\ submitPc' = [submitPc EXCEPT ![s] = "pointsNearby"]
            /\ UNCHANGED points
    /\ UNCHANGED <<submitted, identifiedSpecies, submitResponse, createdSpecies, users,
                   ragVars, imageVars>>

\* calculatePoints after storage.getObservationsNearLocation
PointsNearby(s, ok) ==
    /\ submitPc[s] = "pointsNearby"
    /\ LET nearbyObservations ==
               getObservationsNearLocation(Location(s)[1], Location(s)[2], ok)
           sameSpeciesNearby ==
               SelectSeq(nearbyObservations,
                         LAMBDA obs : toLowerCase(obs.speciesName)
                                          = toLowerCase(identifiedSpecies[s]))
       IN  points' = [points EXCEPT
                         ![s] = IF Len(sameSpeciesNearby) = 0 THEN @ + NewAreaBonus ELSE @]
    /\ submitPc' = [submitPc EXCEPT ![s] = "createObservation"]
    /\ UNCHANGED <<submitted, identifiedSpecies, submitResponse, createdSpecies, users,
                   ragVars, imageVars>>

\* storage.createObservation settles: the document is inserted, or the
\* error is rethrown into the handler's catch block
CreateObservation(s, ok) ==
    /\ submitPc[s] = "createObservation"
    /\ IF ok
       THEN /\ observations' = Append(observations, NewObservation(s))
            /\ submitPc' = [submitPc EXCEPT ![s] = "updatePoints"]
            /\ UNCHANGED submitResponse
       ELSE Responded(s, 500) /\ UNCHANGED observations
    /\ UNCHANGED <<knowledge, species, queries, pc, question, userId, results,
                   internetResults, retrievalResults, answer, response, insertedId,
                   ragCalls, searchCalls, pipelineThrew, searchThrew, queryEmbedding,
                   recentObservations, unavailable, submitted, identifiedSpecies, points,
                   createdSpecies, users, imageVars>>

\* storage.updateUserPoints settles: $inc of the user's points; an error
\* (an authorization that is no ObjectId, a failed update) is caught
UpdateUserPoints(s, ok) ==
    /\ submitPc[s] = "updatePoints"
    /\ LET user == submitted[s].authorization.chars
       IN  users' = IF ok /\ user \in DOMAIN users
                    THEN [users EXCEPT ![user] = @ + points[s]]
                    ELSE users
    /\ submitPc' = [submitPc EXCEPT ![s] = "checkSpecies"]
    /\ UNCHANGED <<submitted, identifiedSpecies, points, submitResponse, createdSpecies,
                   ragVars, imageVars>>

\* the second storage.getSpecies settles: createSpecies is called when it
\* gave null, and 201 is sent otherwise
CheckSpecies(s, ok) ==
    /\ submitPc[s] = "checkSpecies"
    /\ IF getSpecies(identifiedSpecies[s], ok) = 0
       THEN /\ submitPc' = [submitPc EXCEPT ![s] = "createSpecies"]
            /\ UNCHANGED submitResponse
       ELSE Responded(s, 201)
    /\ UNCHANGED <<submitted, identifiedSpecies, points, createdSpecies, users,
                   ragVars, imageVars>>

\* storage.createSpecies settles: the document is inserted and 201 is sent,
\* or the error is rethrown into the handler's catch block
CreateSpecies(s, ok) ==
    /\ submitPc[s] = "createSpecies"
    /\ IF ok
       THEN /\ species' = Append(species, NewSpecies(s))
            /\ createdSpecies' = [createdSpecies EXCEPT ![s] = Len(species) + 1]
            /\ Responded(s, 201)
       ELSE Responded(s, 500) /\ UNCHANGED <<species, createdSpecies>>
    /\ UNCHANGED <<knowledge, observations, queries, pc, question, userId, results,
                   internetResults, retrievalResults, answer, response, insertedId,
                   ragCalls, searchCalls, pipelineThrew, searchThrew, queryEmbedding,
                   recentObservations, unavailable, submitted, identifiedSpecies, points,
                   users, imageVars>>

InitSubmits ==
    /\ knowledge = <<>>
    /\ species \in {<<>>, <<SeededOwl>>}
    /\ observations = <<>>
    /\ unavailable = {}
    /\ InitRequests
    /\ InitImage
    /\ InitSubmit

NextSubmit ==
    \/ \E s \in Submissions, inp \in SubmitInputs : SubmitObservation(s, inp)
    \/ \E s \in Submissions, name \in IdentifiedNames : Identified(s, name)
    \/ \E s \in Submissions, ok \in BOOLEAN : PointsGetSpecies(s, ok)
    \/ \E s \in Submissions, ok \in BOOLEAN : PointsNearby(s, ok)
    \/ \E s \in Submissions, ok \in BOOLEAN : CreateObservation(s, ok)
    \/ \E s \in Submissions, ok \in BOOLEAN : UpdateUserPoints(s, ok)
    \/ \E s \in Submissions, ok \in BOOLEAN : CheckSpecies(s, ok)
    \/ \E s \in Submissions, ok \in BOOLEAN : CreateSpecies(s, ok)

SpecSubmit == InitSubmits /\ [][NextSubmit]_vars

(***************************************************************************)
(* Properties.                                                             *)
(***************************************************************************)
\* answerWithRAG has resolved for request r
Answered(r) == ragCalls[r] = 1 /\ pc[r] \in {"log", "respond", "done"}

\* retrieveRelevantInfo has returned for request r
RetrievalReturned(r) ==
    ragCalls[r] = 1 /\ ~pipelineThrew[r] /\ pc[r] \in {"search", "log", "respond", "done"}

\* C1: answerWithRAG never lets an exception escape: once it was called and
\* the handler has moved on, it resolved to a value, and when a step threw
\* that value has the fixed failure text and the sources ["System Error"].
C1_NoExceptionEscapes ==
    \A r \in Requests :
        Answered(r) =>
            /\ answer[r] # NoAnswer
            /\ pipelineThrew[r] =>
                  /\ answer[r].text = SystemErrorText
                  /\ answer[r].sources = <<JSString(SystemError)>>

\* a request whose question is a number made createEmbedding throw, and the
\* error result was delivered
C1_Witness ==
    \E r \in Requests :
        /\ pipelineThrew[r] /\ question[r].jstype = "number"
        /\ pc[r] = "done" /\ response[r].status = 200
        /\ response[r].sources = <<JSString(SystemError)>>

\* C2: searchInternet is invoked exactly once when retrieveRelevantInfo
\* returned 0 or 1 documents and not at all when it returned 2 or more.
C2_FallbackExactlyWhenFewerThanTwo ==
    \A r \in Requests :
        /\ searchCalls[r] <= 1
        /\ RetrievalReturned(r) =>
              searchCalls[r] = (IF Len(results[r]) \in {0, 1} THEN 1 ELSE 0)
        /\ ~RetrievalReturned(r) => searchCalls[r] = 0

\* one finished request retrieved two documents and never searched, another
\* retrieved one document and searched once
C2_Witness ==
    \E r1, r2 \in Requests :
        /\ pc[r1] = "done" /\ Len(results[r1]) >= 2 /\ searchCalls[r1] = 0
        /\ response[r1].status = 200
        /\ pc[r2] = "done" /\ Len(results[r2]) = 1 /\ searchCalls[r2] = 1
        /\ response[r2].status = 200

\* C3: when the fallback is taken the sequence given to the composer and the
\* returned sources are the local results followed by the external results,
\* in that order, whatever their scores.
C3_LocalThenExternal ==
    \A r \in Requests :
        (Answered(r) /\ searchCalls[r] = 1 /\ ~pipelineThrew[r]) =>
            LET local == results[r]
                external == internetResults[r]
                final == retrievalResults[r]
            IN  /\ Len(final) = Len(local) + Len(external)
                /\ \A i \in 1 .. Len(local) : final[i] = local[i]
                /\ \A j \in 1 .. Len(external) : final[Len(local) + j] = external[j]
                /\ Len(answer[r].sources) = Len(final)
                /\ \A i \in 1 .. Len(final) : answer[r].sources[i] = final[i].source
                /\ answer[r].text = generateResponse(question[r].chars, final)

\* a local document scoring below the external one still comes first
C3_Witness ==
    \E r \in Requests :
        /\ Answered(r) /\ searchCalls[r] = 1
        /\ Len(results[r]) = 1 /\ Len(internetResults[r]) = 1
        /\ ScoreGreater(internetResults[r][1].score, results[r][1].score)
        /\ answer[r].sources = <<results[r][1].source, JSString(InternetSource)>>

\* C4: no document collected or returned by retrieveRelevantInfo has a score
\* of 0.2 or less (num / sqrt(den2) > 1/5, and never NaN).
C4_ScoresAboveThreshold ==
    \A r \in Requests :
        \A i \in 1 .. Len(results[r]) :
            /\ ~results[r][i].score.nan
            /\ 25 * results[r][i].score.num * results[r][i].score.num
                  > results[r][i].score.den2

\* the knowledge store was read and holds an entry whose similarity to the
\* query is exactly 0.2; retrieval returned other entries but not that one
C4_Witness ==
    \E r \in Requests :
        /\ RetrievalReturned(r)
        /\ \E k \in 1 .. Len(knowledge) :
              LET sim == calculateSimilarity(createEmbedding(question[r].chars),
                                             createEmbedding(knowledgeText(knowledge[k])))
              IN  /\ sim.num > 0 /\ 25 * sim.num * sim.num = sim.den2
                  /\ \A i \in 1 .. Len(results[r]) :
                        results[r][i].text # knowledge[k].content
        /\ \E i \in 1 .. Len(results[r]) : results[r][i].source = JSString(InternalKnowledgeBase)

\* C5: retrieveRelevantInfo returns at most 5 documents, ordered by
\* non-increasing score.
C5_TopFiveSorted ==
    \A r \in Requests :
        RetrievalReturned(r) =>
            /\ Len(results[r]) <= 5
            /\ \A i, j \in 1 .. Len(results[r]) :
                  i < j => ~ScoreGreater(results[r][j].score, results[r][i].score)

\* five documents were returned, of all three kinds, the best one is not the
\* first knowledge entry of the store, and the scores strictly decrease
C5_Witness ==
    \E r \in Requests :
        /\ RetrievalReturned(r) /\ Len(results[r]) = 5
        /\ Len(knowledge) + Len(species) + Len(observations) > 5
        /\ results[r][1].text # knowledge[1].content
        /\ ScoreGreater(results[r][1].score, results[r][5].score)
        /\ \E i \in 1 .. 5 : Includes(results[r][i].source.chars, SpeciesDatabase)
        /\ \E i \in 1 .. 5 : Includes(results[r][i].source.chars, UserObservation)

\* C6: a failure of the query-log append does not fail the answer: every
\* finished request whose answer was computed got HTTP 200 with
\* {question, answer, sources}.
C6_LogFailureStillAnswers ==
    \A r \in Requests :
        (Answered(r) /\ pc[r] = "done") =>
            response[r] = [status |-> 200, question |-> question[r],
                           answer |-> answer[r].text, sources |-> answer[r].sources]

\* C7: when the catch-all of answerWithRAG was taken, the request is answered
\* with HTTP 200 and the degraded payload, never with HTTP 500.
C7_PipelineFailureAnswers200 ==
    \A r \in Requests :
        (pipelineThrew[r] /\ pc[r] = "done") =>
            /\ response[r].status # 500
            /\ response[r] = [status |-> 200, question |-> question[r],
                              answer |-> SystemErrorText, sources |-> <<JSString(SystemError)>>]

\* C8: a request whose question is missing or empty is answered with HTTP
\* 400 at once; answerWithRAG is not called and no log entry is written.
C8_EmptyQuestionRejected ==
    /\ \A r \in Requests :
          (pc[r] # "idle" /\ isAuthenticated(userId[r])
           /\ question[r] \in {Undefined, JSString(<<>>)}) =>
              /\ pc[r] = "done"
              /\ response[r].status = 400
              /\ ragCalls[r] = 0
              /\ searchCalls[r] = 0
              /\ insertedId[r] = 0
    /\ \A i \in 1 .. Len(queries) : queries[i].question \notin {Undefined, JSString(<<>>)}

\* a request without question and one with an empty question were both
\* rejected, while the log is still empty
C8_Witness ==
    \E r1, r2 \in Requests :
        /\ pc[r1] = "done" /\ question[r1] = Undefined /\ response[r1].status = 400
        /\ pc[r2] = "done" /\ question[r2] = JSString(<<>>) /\ response[r2].status = 400
        /\ queries = <<>>

\* the requests answered with HTTP 200
Answered200 == {r \in Requests : response[r].status = 200}

\* the requests whose log entry is written and whose response is about to be sent
Appended == {r \in Requests : pc[r] = "respond"}

C9_OneEntryPerAnswer ==
    /\ Len(queries) = Cardinality(Answered200 \cup Appended)
    /\ (\A r \in Requests : pc[r] \in {"idle", "done"}) =>
          Len(queries) = Cardinality(Answered200)
    /\ \A r \in Answered200 :
          /\ insertedId[r] \in 1 .. Len(queries)
          /\ queries[insertedId[r]].question = response[r].question
          /\ queries[insertedId[r]].answer = response[r].answer
          /\ queries[insertedId[r]].sourcesUsed = response[r].sources
          /\ queries[insertedId[r]].userId = userId[r]
    /\ \A r1, r2 \in Answered200 : insertedId[r1] = insertedId[r2] => r1 = r2

C9_AppendOnly ==
    /\ Len(queries') \in {Len(queries), Len(queries) + 1}
    /\ \A i \in 1 .. Len(queries) : queries'[i] = queries[i]

\* C9: the query log is append-only and holds exactly one entry per answered
\* question: in every state the entries are those of the requests answered
\* with HTTP 200 (and of those whose append is done and whose 200 is about to
\* be sent), so once no request is in flight the two numbers are equal; the
\* entry of a request carries the question, answer and sources of its
\* response; and no step changes or removes an existing entry.
C9_QueryLog == []C9_OneEntryPerAnswer /\ [][C9_AppendOnly]_vars

\* two requests were answered with HTTP 200, differently, and the later
\* request's entry was appended first
C9_Witness ==
    /\ \A r \in Requests : pc[r] = "done"
    /\ Answered200 = {1, 2}
    /\ insertedId[2] = 1 /\ insertedId[1] = 2
    /\ response[1].answer # response[2].answer

\* C10: when the external search throws, searchInternet yields no document
\* and answerWithRAG still resolves normally from the local results: sources
\* are the labels of the local results, a single local document's text is in
\* the answer, and with all stores empty the text is the "no information"
\* template around the query and sources is empty.
C10_SearchFailureDegrades ==
    \A r \in Requests :
        searchThrew[r] =>
            /\ Answered(r) /\ ~pipelineThrew[r]
            /\ internetResults[r] = <<>>
            /\ Len(answer[r].sources) = Len(results[r])
            /\ \A i \in 1 .. Len(results[r]) : answer[r].sources[i] = results[r][i].source
            /\ Len(results[r]) = 1 => Includes(answer[r].text, results[r][1].text)
            /\ (knowledge = <<>> /\ species = <<>> /\ observations = <<>>) =>
                  /\ answer[r].text = NoInfoHead \o question[r].chars \o NoInfoTail
                  /\ answer[r].sources = <<>>

\* empty stores and a failed external search: the request was still answered
\* with HTTP 200, the template text and no sources
C10_Witness ==
    \E r \in Requests :
        /\ searchThrew[r] /\ pc[r] = "done"
        /\ knowledge = <<>> /\ species = <<>> /\ observations = <<>>
        /\ response[r].status = 200 /\ response[r].sources = <<>>
        /\ Includes(response[r].answer, question[r].chars)
        /\ Len(question[r].chars) > 0


\* the records of a collection that retrieveRelevantInfo gets to see
Readable(name, collection) == IF name \in unavailable THEN <<>> ELSE collection

\* no record that request r projects makes the projection throw
WellFormedRecords ==
    /\ \A i \in 1 .. Len(Readable("species", species)) : ~SpeciesThrows(species[i])
    /\ \A i \in 1 .. Len(RecentObservations(Readable("observations", observations))) :
           ~ObservationThrows(observations[i])

\* C11: a collection whose read fails counts as empty, and only that one:
\* retrieveRelevantInfo returns the ranked above-threshold documents of the
\* collections that could be read, and neither retrieveRelevantInfo nor
\* answerWithRAG ends in its catch block because of the failed read.
C11_FailedReadIsEmptyCollection ==
    \A r \in Requests :
        (/\ IsString(question[r]) /\ ~Falsy(question[r])
         /\ pc[r] \in {"search", "log", "respond", "done"}
         /\ WellFormedRecords) =>
            /\ ~pipelineThrew[r]
            /\ results[r] = RankResults(
                   KnowledgeResults(queryEmbedding[r], Readable("knowledge", knowledge))
                   \o SpeciesResults(queryEmbedding[r], Readable("species", species))
                   \o ObservationResults(queryEmbedding[r],
                          RecentObservations(Readable("observations", observations))))
            /\ pc[r] # "search" => answer[r] # ErrorResult

\* a request for which one read failed and another collection still gave documents
C11_Witness ==
    /\ pc[1] = "done"
    /\ response[1].status = 200
    /\ "knowledge" \in unavailable
    /\ "species" \notin unavailable
    /\ knowledge # <<>>
    /\ WellFormedRecords
    /\ \E i \in 1 .. Len(results[1]) :
          results[1][i].source = JSString(SpeciesDatabasePrefix \o Text.bubo)


\* retrieveRelevantInfo has taken its slice of the observations for request r
ObservationsScored(r) ==
    /\ IsString(question[r]) /\ ~Falsy(question[r])
    /\ pc[r] \in {"search", "log", "respond", "done"}
    /\ "observations" \notin unavailable
    /\ \A i \in 1 .. Len(Readable("species", species)) : ~SpeciesThrows(species[i])

\* the n observations created last (observations is in order of creation)
MostRecent(n) ==
    {observations[i] : i \in {j \in 1 .. Len(observations) : j > Len(observations) - n}}

\* C12: retrieveRelevantInfo scores at most ObservationLimit observations,
\* and those are the ObservationLimit observations created last: no older
\* observation is scored while a more recent one is left out.
C12_MostRecentFiftyScored ==
    \A r \in Requests :
        ObservationsScored(r) =>
            /\ Len(recentObservations[r]) <= ObservationLimit
            /\ {recentObservations[r][i] : i \in 1 .. Len(recentObservations[r])}
                  = MostRecent(ObservationLimit)


\* the requests whose handler has got past storage.createQuery
Logged == {r \in Requests : ragCalls[r] = 1 /\ pc[r] \in {"respond", "done"}}

\* a step leaves the three collections as they are and appends at most one
\* entry to the query log
C13_Frame ==
    /\ knowledge' = knowledge
    /\ species' = species
    /\ observations' = observations
    /\ \/ queries' = queries
       \/ /\ Len(queries') = Len(queries) + 1
          /\ SubSeq(queries', 1, Len(queries)) = queries

\* C13: handling a question never changes the knowledge, species or
\* observation collections, whether the request succeeds or fails; the only
\* store written is the query log, by at most one append per request.
C13_OnlyQueryLogWritten ==
    /\ [](Len(queries) <= Cardinality(Logged))
    /\ [][C13_Frame]_vars

\* one request answered 500 and another answered 200, over a non-empty store
C13_Witness ==
    /\ knowledge # <<>>
    /\ \E r1, r2 \in Requests :
          /\ pc[r1] = "done" /\ response[r1].status = 500
          /\ pc[r2] = "done" /\ response[r2].status = 200
    /\ Len(queries) >= 1


\* what retrieveRelevantInfo returns for a query embedding over the stores as
\* they are, computed in one piece
LocalResults(qe) ==
    IF ~WellFormedRecords THEN <<>>
    ELSE RankResults(
             KnowledgeResults(qe, Readable("knowledge", knowledge))
             \o SpeciesResults(qe, Readable("species", species))
             \o ObservationResults(qe,
                    RecentObservations(Readable("observations", observations))))

\* what answerWithRAG returns for question q when it runs alone, given
\* whether its own internet search failed
AloneAnswer(q, searchFailed) ==
    IF ~IsString(q) THEN ErrorResult
    ELSE LET local == LocalResults(createEmbedding(q.chars))
             final == IF NeedsFallback(local)
                      THEN Combine(local, IF searchFailed THEN <<>>
                                          ELSE searchInternet(q.chars))
                      ELSE local
         IN  AnswerResult(q.chars, final)

\* the step in which an invocation returns, and every step after it
C14_Returns ==
    \A r \in Requests :
        /\ (~Answered(r) /\ Answered(r)') =>
               answer'[r] = AloneAnswer(question'[r], searchThrew'[r])
        /\ Answered(r) => answer'[r] = answer[r]

\* C14: invocations of answerWithRAG share no mutable state: under every
\* interleaving of the requests over an unchanged corpus, each invocation
\* returns the AnswerResult it would return alone, which depends only on
\* its own question and on the stores, and no later step of any request
\* changes what it returned.
C14_InvocationsIndependent == [][C14_Returns]_vars

\* two overlapping invocations with different questions have both returned,
\* the later one first, and both found documents in the stores
C14_Witness ==
    /\ Answered(1) /\ pc[1] = "log"
    /\ Answered(2) /\ pc[2] = "done"
    /\ IsString(question[1]) /\ IsString(question[2])
    /\ question[1] # question[2]
    /\ results[1] # <<>> /\ results[2] # <<>>


\* request r has computed the embedding of its question
Embedded(r) == IsString(question[r]) /\ ~Falsy(question[r]) /\ pc[r] # "idle"

\* the squared Euclidean norm of embedding e is 1: e is normalised (its
\* components are counts[i] / sqrt(mag2)), every count is a non-negative number
\* and the squares of the counts add up to mag2 > 0
UnitNorm(e) ==
    /\ e.numeric
    /\ e.mag2 > 0
    /\ \A i \in DOMAIN e.counts : e.counts[i] >= 0
    /\ SumOver([i \in DOMAIN e.counts |-> e.counts[i] * e.counts[i]], DOMAIN e.counts)
          = e.mag2

\* embedding e is the all-zero vector
ZeroVector(e) ==
    /\ e.numeric
    /\ e.mag2 = 0
    /\ \A i \in DOMAIN e.counts : e.counts[i] = 0

\* C15: createEmbedding returns a vector of Euclidean norm 1 for a text with
\* at least one retained token (a word longer than two characters after
\* lowercasing and stripping), and the all-zero vector for a text with none.
C15_UnitNormOrZero ==
    \A r \in Requests :
        Embedded(r) =>
            IF RetainedWords(question[r].chars) # <<>>
            THEN UnitNorm(queryEmbedding[r])
            ELSE ZeroVector(queryEmbedding[r])


\* every token of the question of request r has at most two characters
ShortQuery(r) ==
    /\ Embedded(r)
    /\ \A i \in 1 .. Len(Words(question[r].chars)) : Len(Words(question[r].chars)[i]) <= 2

\* C16: for a query whose tokens all have at most two characters the query
\* embedding is all-zero, retrieveRelevantInfo returns the empty sequence
\* whatever the stores hold, and answerWithRAG takes the fallback path.
C16_ShortQueryFallsBack ==
    \A r \in Requests :
        ShortQuery(r) =>
            /\ ZeroVector(queryEmbedding[r])
            /\ pc[r] \in {"search", "log", "respond", "done"} =>
                   /\ results[r] = <<>>
                   /\ searchCalls[r] = 1

\* "x y" asked over readable stores that hold documents, and answered
C16_Witness ==
    /\ ShortQuery(1)
    /\ pc[1] = "done"
    /\ unavailable = {}
    /\ Len(knowledge) > 1 /\ species # <<>> /\ observations # <<>>
    /\ WellFormedRecords
    /\ searchCalls[1] = 1
    /\ Len(answer[1].sources) = 1


\* C17: when answerWithRAG returns normally, sources is the sequence of the
\* source labels of the final result sequence: same length, same order,
\* duplicates kept.
C17_SourcesAreLabels ==
    \A r \in Requests :
        (Answered(r) /\ ~pipelineThrew[r]) =>
            /\ Len(answer[r].sources) = Len(retrievalResults[r])
            /\ \A i \in 1 .. Len(retrievalResults[r]) :
                   answer[r].sources[i] = retrievalResults[r][i].source

\* an answer whose sources name the same label twice, among three or more
C17_Witness ==
    /\ pc[1] = "done" /\ response[1].status = 200
    /\ ~pipelineThrew[1]
    /\ Len(answer[1].sources) >= 3
    /\ \E i, j \in 1 .. Len(answer[1].sources) :
          i < j /\ answer[1].sources[i] = answer[1].sources[j]
    /\ response[1].sources = answer[1].sources


C19_ComposeFailureApologises ==
    \A r \in Requests :
        (/\ Answered(r) /\ IsString(question[r])
         /\ retrievalResults[r] # <<>>
         /\ ComposeThrows(question[r].chars, retrievalResults[r])) =>
            /\ ~pipelineThrew[r]
            /\ answer[r].text = FailureHead \o question[r].chars \o FailureTail
            /\ answer[r].sources = Sources(retrievalResults[r])

\* "What owl" answered from results whose best document has the number 7 as
\* its source: the search for a species document fails on it
C19_Witness ==
    /\ pc[1] = "done" /\ response[1].status = 200
    /\ question[1] = JSString(Text.qWhat)
    /\ retrievalResults[1][1].source = JSNumber(7)
    /\ response[1].answer = FailureHead \o Text.qWhat \o FailureTail
    /\ response[1].sources[1] = JSNumber(7)


\* text s begins with p
StartsWith(s, p) == Len(s) >= Len(p) /\ SubSeq(s, 1, Len(p)) = p

\* the openings of each kind of question
Templates ==
    [species |-> {BasedOnOurInformation, SpeciesOpening},
     location |-> {LocationOpening},
     sighting |-> {ObservationsOpening, NoObservationsOpening},
     general |-> {GeneralHead}]

\* the kind of a question: the first list, in the order species, location,
\* sighting, that holds one of its lowercased whitespace-separated tokens
Category(query) ==
    LET tokens == SplitWhitespace(toLowerCase(query))
        has(list) == \E i \in 1 .. Len(tokens) : tokens[i] \in list
    IN  IF has(SpeciesKeywords) THEN "species"
        ELSE IF has(LocationKeywords) THEN "location"
        ELSE IF has(SightingKeywords) THEN "sighting"
        ELSE "general"

\* request r got an answer composed from documents by the try block
Composed(r) ==
    /\ Answered(r) /\ IsString(question[r])
    /\ retrievalResults[r] # <<>>
    /\ ~ComposeThrows(question[r].chars, retrievalResults[r])

\* C20: generateResponse opens the answer with exactly one template, chosen
\* by priority over the lowercased whitespace-separated tokens of the query:
\* species, else location, else sighting, else general; a query that matches
\* several lists gets only the opening of the first.
C20_OpeningByPriority ==
    \A r \in Requests :
        Composed(r) =>
            \A kind \in DOMAIN Templates :
                (\E t \in Templates[kind] : StartsWith(answer[r].text, t))
                    <=> kind = Category(question[r].chars)

\* "seen where what owl" matches all three lists and is opened as a species
\* question
C20_Witness ==
    /\ pc[1] = "done" /\ response[1].status = 200
    /\ question[1] = JSString(Text.qAll)
    /\ Composed(1)
    /\ Len(retrievalResults[1]) >= 2
    /\ StartsWith(response[1].answer, BasedOnOurInformation)

\* the documents the opening and the top-ranked text have used: the first
\* document, the species document quoted by a species opening, and the
\* observations listed by a sighting opening
UsedDocuments(query, docs) ==
    {1}
    \cup (IF Category(query) = "species" /\ WithSource(docs, SpeciesDatabase) # {}
          THEN {Min(WithSource(docs, SpeciesDatabase))} ELSE {})
    \cup (IF Category(query) = "sighting" THEN WithSource(docs, UserObservation) ELSE {})

\* text s ends with p
EndsWith(s, p) == Len(s) >= Len(p) /\ SubSeq(s, Len(s) - Len(p) + 1, Len(s)) = p

\* the addendum that lists the first two documents of the set unused
Addendum(docs, unused) ==
    LET first == Min(unused)
        second == Min(unused \ {first})
    IN  AdditionalInformation \o Bullet \o docs[first].text \o Newline
        \o Bullet \o docs[second].text \o Newline

\* C21: when more than one document is still unused after the opening and
\* the top-ranked text, generateResponse ends the answer with an "Additional
\* information" list of up to two documents not used so far; when at most
\* one document is unused, the answer has no such list.
C21_AddendumOfUnusedDocuments ==
    \A r \in Requests :
        Composed(r) =>
            LET docs == retrievalResults[r]
                unused == (1 .. Len(docs)) \ UsedDocuments(question[r].chars, docs)
            IN  IF Cardinality(unused) > 1
                THEN EndsWith(answer[r].text, Addendum(docs, unused))
                ELSE ~Includes(answer[r].text, AdditionalInformation)

\* C22: for every query and every non-empty document sequence, when the
\* composition does not fail the answer contains the text of the top-ranked
\* document, whichever opening was chosen.
C22_TopDocumentInAnswer ==
    \A r \in Requests :
        Composed(r) => Includes(answer[r].text, retrievalResults[r][1].text)

\* a species question whose opening already quotes the top-ranked document:
\* its text is in the answer once
C22_Witness ==
    /\ pc[1] = "done" /\ response[1].status = 200
    /\ Composed(1)
    /\ Len(retrievalResults[1]) >= 2
    /\ Len(retrievalResults[1][1].text) > 0
    /\ StartsWith(response[1].answer,
                  BasedOnOurInformation \o retrievalResults[1][1].text \o BlankLine
                  \o AdditionalInformation)

\* the above-threshold documents of the three collections, merged in the
\* order they are pushed (the observations limited to ObservationLimit)
Candidates(r) ==
    KnowledgeResults(queryEmbedding[r], Readable("knowledge", knowledge))
    \o SpeciesResults(queryEmbedding[r], Readable("species", species))
    \o ObservationResults(queryEmbedding[r],
           RecentObservations(Readable("observations", observations)))

\* C23: retrieveRelevantInfo returns the best documents of the three
\* collections taken together: the result is made of TopK of the merged
\* above-threshold candidates (all of them when there are fewer), and no
\* candidate left out has a score strictly greater than a returned one.
C23_GloballyBest ==
    \A r \in Requests :
        (RetrievalReturned(r) /\ IsString(question[r]) /\ WellFormedRecords) =>
            LET cands == Candidates(r)
                n == IF Len(cands) < TopK THEN Len(cands) ELSE TopK
            IN  \E chosen \in SUBSET (1 .. Len(cands)) :
                    /\ Cardinality(chosen) = n
                    /\ Len(results[r]) = n
                    /\ {results[r][i] : i \in 1 .. n} = {cands[i] : i \in chosen}
                    /\ \A i \in chosen, j \in (1 .. Len(cands)) \ chosen :
                           ~ScoreGreater(cands[j].score, cands[i].score)

\* more than TopK candidates from all three collections; an observation is
\* returned while a knowledge entry pushed before it is left out
C23_Witness ==
    /\ pc[1] = "done"
    /\ WellFormedRecords
    /\ Len(Candidates(1)) > TopK
    /\ Len(results[1]) = TopK
    /\ \E i \in 1 .. TopK : Includes(results[1][i].source.chars, UserObservation)
    /\ \E i \in 1 .. Len(Candidates(1)) :
          /\ Candidates(1)[i].source = JSString(InternalKnowledgeBase)
          /\ \A j \in 1 .. TopK : results[1][j] # Candidates(1)[i]

\* the keys of wordFreq for a text: the words createEmbedding hashes
HashedWords(text) ==
    LET retained == RetainedWords(text)
    IN  {retained[i] : i \in 1 .. Len(retained)} \ {WordProto}

\* the indices of an array of VECTOR_SIZE components
Indices == 0 .. (VECTOR_SIZE - 1)

\* C24: createEmbedding returns for every text: each token's bucket index
\* abs(hash) mod 128 lies in 0..127, also when the rolling hash has left the
\* 32-bit range or is negative, so the components written are components of
\* the 128-component vector and a string question always gets its embedding.
C24_BucketsInsideVector ==
    \A r \in Requests :
        Embedded(r) =>
            LET e == queryEmbedding[r]
                hashed == HashedWords(question[r].chars)
            IN  /\ pipelineThrew[r] => searchThrew[r]
                /\ \A w \in hashed : position(w) \in Indices
                /\ DOMAIN e.counts \subseteq Indices
                /\ DOMAIN e.counts = {position(w) : w \in hashed \ {WordConstructor}}

\* the question "observation mongoose" has been embedded: one token's hash is
\* above 2^32 (hi part 67402), the other's is negative, and the two components
\* written are 44 and 115
C24_Witness ==
    /\ pc[1] = "done"
    /\ question[1] = JSString(Text.qHash)
    /\ \E w \in HashedWords(Text.qHash) : hashCode(w)[1] >= 65536
    /\ \E w \in HashedWords(Text.qHash) : hashCode(w)[1] < 0
    /\ DOMAIN queryEmbedding[1].counts = {44, 115}
    /\ queryEmbedding[1].mag2 = 2

\* C25: when searchInternet does not throw, an answer that answerWithRAG
\* returns from its try block cites at least one and at most five sources,
\* and its text is never the "no information" template of generateResponse.
C25_NeverWithoutSource ==
    \A r \in Requests :
        (Answered(r) /\ ~pipelineThrew[r] /\ ~searchThrew[r]) =>
            /\ Len(answer[r].sources) \in 1 .. TopK
            /\ answer[r].text # NoInfoHead \o question[r].chars \o NoInfoTail

\* an answer over stores that gave no local document: the search ran and did
\* not throw, and its one document is the only source
C25_Witness ==
    /\ pc[1] = "done"
    /\ ~pipelineThrew[1]
    /\ results[1] = <<>>
    /\ searchCalls[1] = 1
    /\ ~searchThrew[1]
    /\ answer[1].sources = <<JSString(InternetSource)>>
    /\ Includes(answer[1].text, InformationAbout)

\* a record that request r gets to project makes the projection throw
ProjectionThrows(r) ==
    \/ \E i \in 1 .. Len(Readable("species", species)) : SpeciesThrows(species[i])
    \/ \E i \in 1 .. Len(RecentObservations(Readable("observations", observations))) :
           ObservationThrows(observations[i])

\* C26: when the projection of one record throws inside retrieveRelevantInfo
\* the function returns the empty sequence, whatever it had collected from
\* earlier records and earlier collections; nothing is thrown into
\* answerWithRAG, which takes the fallback path.
C26_ThrowingRecordEmptiesRetrieval ==
    \A r \in Requests :
        (Embedded(r) /\ ProjectionThrows(r)
         /\ pc[r] \in {"search", "log", "respond", "done"}) =>
            /\ results[r] = <<>>
            /\ searchCalls[r] = 1
            /\ pipelineThrew[r] => searchThrew[r]
            /\ Answered(r) =>
                   answer[r].sources =
                       Sources(IF searchThrew[r] THEN <<>>
                               ELSE searchInternet(question[r].chars))

\* the knowledge store holds two entries that match the question, the second
\* species record has no commonNames: the answer cites the search result only
C26_Witness ==
    /\ pc[1] = "done"
    /\ ProjectionThrows(1)
    /\ Len(KnowledgeResults(queryEmbedding[1], Readable("knowledge", knowledge))) = 2
    /\ \E i \in 1 .. Len(species) :
           /\ SpeciesThrows(species[i])
           /\ SpeciesResults(queryEmbedding[1], SubSeq(species, 1, i - 1)) # <<>>
    /\ results[1] = <<>>
    /\ answer[1].sources = <<JSString(InternetSource)>>

\* the word "found", listed for locations and for sightings
Found == <<102, 111, 117, 110, 100>>

\* the lowercased whitespace-separated tokens of a query, as a set
TokenSet(query) ==
    LET tokens == SplitWhitespace(toLowerCase(query))
    IN  {tokens[i] : i \in 1 .. Len(tokens)}

\* the answer of request r opens with one of the two sighting templates
SightingOpened(r) == \E t \in Templates.sighting : StartsWith(answer[r].text, t)

\* C27: "found" is a location keyword and a sighting keyword and the location
\* test comes first, so an answer opens with a sighting template only when the
\* query has one of seen, spotted, observed, sighting, reported and neither a
\* species nor a location keyword; a query whose only keyword is "found" is
\* opened with the location template, never with a sighting template.
C27_FoundMeansLocation ==
    \A r \in Requests :
        Composed(r) =>
            LET tokens == TokenSet(question[r].chars)
                keywords == SpeciesKeywords \cup LocationKeywords \cup SightingKeywords
            IN  /\ SightingOpened(r) =>
                       /\ tokens \cap (SightingKeywords \ {Found}) # {}
                       /\ tokens \cap SpeciesKeywords = {}
                       /\ tokens \cap LocationKeywords = {}
                /\ tokens \cap keywords = {Found} =>
                       /\ StartsWith(answer[r].text, LocationOpening)
                       /\ ~SightingOpened(r)

\* "owl found" answered from a store with an owl observation: the answer
\* opens with the location template although an observation was retrieved
C27_Witness ==
    /\ pc[1] = "done"
    /\ Composed(1)
    /\ question[1] = JSString(Text.qFound)
    /\ WithSource(retrievalResults[1], UserObservation) # {}
    /\ StartsWith(answer[1].text, LocationOpening)

\* a response, once sent, is the request's response for good
C28_SentOnce ==
    \A r \in Requests : response[r] # NoResponse => response'[r] = response[r]

\* the response of a request is 400 for a missing question and 200 or 500
\* otherwise, and a 200 was sent after the request's log entry was appended
C28_Statuses ==
    \A r \in Requests :
        /\ response[r] # NoResponse <=> pc[r] = "done"
        /\ (pc[r] = "done" /\ isAuthenticated(userId[r])) =>
               /\ response[r].status \in {400, 200, 500}
               /\ response[r].status = 400 <=> Falsy(question[r])
        /\ response[r].status = 200 =>
               /\ insertedId[r] \in 1 .. Len(queries)
               /\ queries[insertedId[r]] = QueryData(userId[r], question[r], answer[r])

\* C28: every POST /api/rag/ask request that the authentication middleware
\* lets through gets exactly one response, with status 400 (no question),
\* 200 or 500; when the storage calls and the fallback delay complete it
\* eventually gets that response; and 200 is sent only after the request's
\* entry was appended to the query log.
C28_OneResponseEventually ==
    /\ []C28_Statuses
    /\ [][C28_SentOnce]_vars
    /\ \A r \in Requests : (pc[r] # "idle") ~> (response[r] # NoResponse)

\* both requests were answered with 200 after an interleaved run: the entry
\* of the second was appended before the entry of the first
C28_Witness ==
    /\ \A r \in Requests : pc[r] = "done" /\ response[r].status = 200
    /\ insertedId[2] < insertedId[1]

\* C29: the image-classification model is loaded once: under any interleaving
\* of the import-time loadModel() call and calls of identifySpecies,
\* mobilenet.load() is called at most once and model is assigned at most once.
C29_ModelLoadedOnce ==
    /\ loadCalls <= 1
    /\ modelAssignments <= 1

\* the scientific names the submissions carry
SubmittedNames == IdentifiedNames \cup {Text.owl, Text.owlLower}

\* C30: submitting observations creates a species entry only when none exists
\* for that scientific name: under any interleaving of concurrent POST
\* /api/observations requests the route inserts at most one species document
\* per scientific name, and at most one observation per species carries the
\* +25 bonus of a new species.
C30_OneSpeciesOneBonus ==
    \A name \in SubmittedNames :
        /\ Cardinality({s \in Submissions :
               /\ createdSpecies[s] # 0
               /\ species[createdSpecies[s]].scientificName = name}) <= 1
        /\ Cardinality({i \in 1 .. Len(observations) :
               /\ observations[i].speciesName = name
               /\ observations[i].pointsAwarded = BasePoints + NewSpeciesBonus}) <= 1

=============================================================================
